---- MODULE Spec2Model ----
(***************************************************************************)
(* A model of threeBrainPy's coordinate core: the tagged 4x4 matrix        *)
(* algebra (core/mat44.py), the tagged vector (core/vec3.py), the brain's  *)
(* transform graph and its update policy (core/brain.py), and the          *)
(* electrode coordinate resolution of Brain.add_electrodes.                *)
(*                                                                         *)
(* Numbers.  Matrix entries are integers.  The matrices the model feeds to *)
(* the code are rigid affine maps (a signed permutation of the axes plus   *)
(* an integer translation), on which matrix product and inverse are exact. *)
(* Vector coordinates are fixed-point numbers in thousandths (Unit = 1.0), *)
(* so that the lengths 499.999 and 500.0 are both representable.           *)
(* A Python exception is a result whose err field is not empty.            *)
(* Python's None is the empty tuple, a present object x is <<x>>.          *)
(***************************************************************************)
EXTENDS Integers, Sequences, FiniteSets, TLC

VARIABLES
    _vox2ras,             \* Brain._vox2ras: None or a Mat44
    _vox2ras_tkr,         \* Brain._vox2ras_tkr: None or a Mat44
    _ras2mni_305,         \* Brain._ras2mni_305: whatever the constructor stored
    _electrode_contacts,  \* Brain._electrode_contacts: number -> ElectrodeSphere
    _geoms,               \* Brain._geoms: name -> geometry
    _electrode_cmaps,     \* Brain._electrode_cmaps: name -> ElectrodeColormap
    seen,                 \* history: name -> the ranges of the keyframes its colormap took in
    call,                 \* the operation executed last, with its arguments
    ret,                  \* what that operation returned or raised
    pre,                  \* the base transforms as they were when it started
    effects,              \* the files it read and the fields it assigned, in order
    lhs,                  \* left operand of the matrix and of the vector algebra
    rhs,                  \* right operand of the matrix and of the vector algebra
    table,                \* the electrode table handed to add_electrodes
    space                 \* the space the caller declares for its x, y, z

vars == <<_vox2ras, _vox2ras_tkr, _ras2mni_305, _electrode_contacts, _geoms,
          _electrode_cmaps, seen,
          call, ret, pre, effects, lhs, rhs, table, space>>

(***************************************************************************)
(* Bounds of the model.                                                    *)
(***************************************************************************)
MaxShift == 1       \* translations of the operand matrices: -MaxShift..MaxShift
MaxListLen == 2     \* longest volume_files list handed to _update_matrices
MaxNumber == 2      \* largest electrode number handed to add_electrode_contact
MaxKeyframeLen == 2 \* longest value and time handed to SimpleKeyframe

None == <<>>
Some(x) == <<x>>

Ok(v) == [err |-> "", val |-> <<v>>]
Raise(e) == [err |-> e, val |-> <<>>]
NoResult == [err |-> "", val |-> <<>>]
IsOk(r) == r.err = "" /\ r.val # <<>>
Val(r) == r.val[1]

(***************************************************************************)
(* 4x4 matrices: a tuple of four rows of four integers.                    *)
(***************************************************************************)
Eye4 == << <<1, 0, 0, 0>>, <<0, 1, 0, 0>>, <<0, 0, 1, 0>>, <<0, 0, 0, 1>> >>

\* np.matmul
MatMulEntry(a, b, i, j) ==
    a[i][1] * b[1][j] + a[i][2] * b[2][j] + a[i][3] * b[3][j] + a[i][4] * b[4][j]

MatMulRow(a, b, i) ==
    <<MatMulEntry(a, b, i, 1), MatMulEntry(a, b, i, 2),
      MatMulEntry(a, b, i, 3), MatMulEntry(a, b, i, 4)>>

MatMul(a, b) ==
    <<MatMulRow(a, b, 1), MatMulRow(a, b, 2), MatMulRow(a, b, 3), MatMulRow(a, b, 4)>>

\* a.transpose()
Transpose(a) ==
    << <<a[1][1], a[2][1], a[3][1], a[4][1]>>, <<a[1][2], a[2][2], a[3][2], a[4][2]>>,
       <<a[1][3], a[2][3], a[3][3], a[4][3]>>, <<a[1][4], a[2][4], a[3][4], a[4][4]>> >>

\* The matrices of the model: rotation part orthogonal, last row 0 0 0 1.
IsRigid(a) ==
    /\ a[4] = <<0, 0, 0, 1>>
    /\ \A i, j \in 1..3 :
          a[i][1] * a[j][1] + a[i][2] * a[j][2] + a[i][3] * a[j][3]
              = (IF i = j THEN 1 ELSE 0)

\* np.linalg.inv on a rigid affine matrix [R t; 0 1]: [R^T  -R^T t; 0 1].
MatInvShift(a, i) == 0 - (a[1][i] * a[1][4] + a[2][i] * a[2][4] + a[3][i] * a[3][4])

MatInv(a) ==
    << <<a[1][1], a[2][1], a[3][1], MatInvShift(a, 1)>>,
       <<a[1][2], a[2][2], a[3][2], MatInvShift(a, 2)>>,
       <<a[1][3], a[2][3], a[3][3], MatInvShift(a, 3)>>,
       <<0, 0, 0, 1>> >>

(***************************************************************************)
(* Mat44: the matrix with its four tags and the extra side channel.        *)
(* extra.missing and extra.source_format model the two keys the code ever  *)
(* stores in Mat44.extra; "" is an absent key.                             *)
(***************************************************************************)
EmptyExtra == [missing |-> FALSE, source_format |-> ""]

\* Mat44.__init__ for a 4x4 array given by row
Mat44(mat, space_from, space_to, modality_from, modality_to) ==
    [mat |-> mat, space_from |-> space_from, space_to |-> space_to,
     modality_from |-> modality_from, modality_to |-> modality_to,
     extra |-> EmptyExtra]

\* Mat44(space_from = ..., space_to = ...): the identity, modalities T1
Mat44Eye(space_from, space_to) == Mat44(Eye4, space_from, space_to, "T1", "T1")

\* __mul__ without its test of the spaces
Mat44MulNoSpaceCheck(self, other) ==
    IF self.modality_from # other.modality_to
    THEN Raise("ValueError: Mat44 multiply: modalities must match")
    ELSE Ok(Mat44(MatMul(self.mat, other.mat), other.space_from, self.space_to,
                  other.modality_from, self.modality_to))

\* __mul__ with T1 accepted against any modality
Mat44MulT1Wildcard(self, other) ==
    IF /\ self.modality_from # other.modality_to
       /\ self.modality_from # "T1" /\ other.modality_to # "T1"
    THEN Raise("ValueError: Mat44 multiply: modalities must match")
    ELSE IF self.space_from # other.space_to
    THEN Raise("ValueError: Mat44 multiply: spaces must match")
    ELSE Ok(Mat44(MatMul(self.mat, other.mat), other.space_from, self.space_to,
                  other.modality_from, self.modality_to))

\* Mat44.__mul__
Mat44Mul(self, other) ==
    IF self.modality_from # other.modality_to
    THEN Raise("ValueError: Mat44 multiply: modalities must match")
    ELSE IF self.space_from # other.space_to
    THEN Raise("ValueError: Mat44 multiply: spaces must match")
    ELSE Ok(Mat44(MatMul(self.mat, other.mat), other.space_from, self.space_to,
                  other.modality_from, self.modality_to))

\* __invert__ that keeps the tags where they are
Mat44InvertKeepTags(self) ==
    Mat44(MatInv(self.mat), self.space_from, self.space_to,
          self.modality_from, self.modality_to)

\* Mat44.__invert__
Mat44Invert(self) ==
    Mat44(MatInv(self.mat), self.space_to, self.space_from,
          self.modality_to, self.modality_from)

\* Mat44.__deepcopy__: the copy carries no extra
Mat44DeepCopy(self) ==
    Mat44(self.mat, self.space_from, self.space_to,
          self.modality_from, self.modality_to)

\* a * b where a and b are themselves results: an exception raised while
\* evaluating an operand propagates (left operand first)
MulR(ra, rb) ==
    IF ra.err # "" THEN ra
    ELSE IF rb.err # "" THEN rb
    ELSE Mat44Mul(Val(ra), Val(rb))

InvertR(ra) == IF ra.err # "" THEN ra ELSE Ok(Mat44Invert(Val(ra)))

(***************************************************************************)
(* Operands of the matrix algebra.                                         *)
(***************************************************************************)
Shift(dx, dy, dz) ==
    << <<1, 0, 0, dx>>, <<0, 1, 0, dy>>, <<0, 0, 1, dz>>, <<0, 0, 0, 1>> >>

\* the index swap of the set_transform_space docstring
SwapIJ == << <<0, 1, 0, 0>>, <<1, 0, 0, 0>>, <<0, 0, 1, 0>>, <<0, 0, 0, 1>> >>

OperandMats ==
    {MatMul(Shift(d, 0, 0), r) : d \in (0 - MaxShift)..MaxShift, r \in {Eye4, SwapIJ}}

OperandSpaces == {"ras", "voxel", "ras_tkr"}
Modalities == {"T1", "CT"}

TaggedMats ==
    {Mat44(m, sf, st, mf, mt) :
        m \in OperandMats, sf \in OperandSpaces, st \in OperandSpaces,
        mf \in Modalities, mt \in Modalities}

NoCall == [op |-> "none", files |-> <<>>, update |-> 0, repeated |-> FALSE,
           space_from |-> "", space_to |-> "", args |-> <<>>]
NoTable == [has_electrode_column |-> TRUE, rows |-> <<>>]
NoPre == [vox2ras |-> None, vox2ras_tkr |-> None, ras2mni_305 |-> None,
          contacts |-> <<>>, geoms |-> <<>>, cmaps |-> <<>>]
NoEffects == [reads |-> <<>>, writes |-> <<>>, stopped_at |-> 0]

(***************************************************************************)
(* The matrix algebra as a state machine: the operands are drawn when the  *)
(* run starts, the actions apply the operators.                            *)
(***************************************************************************)
InitMat44 ==
    /\ lhs \in TaggedMats
    /\ rhs \in TaggedMats
    /\ _vox2ras = None
    /\ _vox2ras_tkr = None
    /\ _ras2mni_305 = None
    /\ _electrode_contacts = <<>>
    /\ _geoms = <<>>
    /\ _electrode_cmaps = <<>>
    /\ seen = <<>>
    /\ table = NoTable
    /\ space = "ras"
    /\ call = NoCall
    /\ ret = NoResult
    /\ pre = NoPre
    /\ effects = NoEffects

\* left * right
Multiply ==
    /\ call.op = "none"
    /\ call' = [NoCall EXCEPT !.op = "mul"]
    /\ ret' = Mat44Mul(lhs, rhs)
    /\ UNCHANGED <<_vox2ras, _vox2ras_tkr, _ras2mni_305, _electrode_contacts, _geoms, _electrode_cmaps, seen,
                   pre, effects, lhs, rhs, table, space>>

NextMat44 == Multiply

SpecMat44 == InitMat44 /\ [][NextMat44]_vars

(***************************************************************************)
(* C1: left * right raises unless left.modality_from = right.modality_to   *)
(* and left.space_from = right.space_to; when it succeeds the product is   *)
(* the matrix product tagged (right.space_from, left.space_to,             *)
(* right.modality_from, left.modality_to); a rejected product returns no   *)
(* matrix at all.                                                          *)
(***************************************************************************)
C1_Compose ==
    call.op = "mul" =>
        LET chains == /\ lhs.modality_from = rhs.modality_to
                      /\ lhs.space_from = rhs.space_to
        IN  /\ ~chains => (ret.err # "" /\ ret.val = <<>>)
            /\ chains =>
                  /\ IsOk(ret)
                  /\ Val(ret).mat = MatMul(lhs.mat, rhs.mat)
                  /\ Val(ret).space_from = rhs.space_from
                  /\ Val(ret).space_to = lhs.space_to
                  /\ Val(ret).modality_from = rhs.modality_from
                  /\ Val(ret).modality_to = lhs.modality_to

\* a product accepted between operands whose four tags are pairwise different
C1_Witness ==
    /\ call.op = "mul"
    /\ IsOk(ret)
    /\ lhs.space_from # lhs.space_to
    /\ rhs.space_from # lhs.space_to
    /\ lhs.modality_to # rhs.modality_from
    /\ lhs.mat # Eye4 /\ rhs.mat # Eye4 /\ lhs.mat # rhs.mat

(***************************************************************************)
(* Volume files.  What the volume-reading collaborator (nibabel) returns   *)
(* for a file is data of the file: its affine and its header's tkr matrix. *)
(* The subject of the model has two MGZ, two NIfTI and one MGH volume on   *)
(* disk, and one MGZ path that does not exist.                             *)
(***************************************************************************)
VolumeFiles ==
    { [id |-> 1, name |-> "brain.finalsurfs.mgz", ext |-> "mgz",    exists |-> TRUE],
      [id |-> 2, name |-> "T1.nii.gz",            ext |-> "nii.gz", exists |-> TRUE],
      [id |-> 3, name |-> "aseg.mgz",             ext |-> "mgz",    exists |-> TRUE],
      [id |-> 4, name |-> "CT.nii",               ext |-> "nii",    exists |-> TRUE],
      [id |-> 5, name |-> "synthSR.mgz",          ext |-> "mgz",    exists |-> FALSE],
      [id |-> 6, name |-> "orig.mgh",             ext |-> "mgh",    exists |-> TRUE] }

\* os.path.exists(volume_file)
PathExists(f) == f.exists

\* volume_file.lower().endswith(".mgz")
EndsWithMgz(f) == f.ext = "mgz"

\* read_volume's format inferred from the suffix, kept by VolumeWrapper._format
VolumeFormat(f) == IF f.ext \in {"nii.gz", "nii"} THEN "nii" ELSE "mgz"

\* volume.affine of file f (voxel to scanner RAS)
VolumeAffine(f) ==
    << <<-1, 0, 0, 128 + f.id>>, <<0, 0, 1, -128>>, <<0, -1, 0, 128>>, <<0, 0, 0, 1>> >>

\* header.get_base_affine() (NIfTI) or header.get_vox2ras_tkr() (MGZ) of file f
VolumeTkrAffine(f) ==
    IF VolumeFormat(f) = "nii"
    THEN << <<-1, 0, 0, 127>>, <<0, 0, 1, -127>>, <<0, -1, 0, 127 + f.id>>, <<0, 0, 0, 1>> >>
    ELSE << <<-1, 0, 0, 128>>, <<0, 0, 1, -128>>, <<0, -1, 0, 128 + f.id>>, <<0, 0, 0, 1>> >>

\* VolumeWrapper.get_vox2ras
VolumeVox2ras(f) == Mat44(VolumeAffine(f), "voxel", "ras", "T1", "T1")

\* VolumeWrapper.get_vox2ras_tkr
VolumeVox2rasTkr(f) ==
    [Mat44(VolumeTkrAffine(f), "voxel", "ras_tkr", "T1", "T1")
        EXCEPT !.extra.source_format = VolumeFormat(f)]

(***************************************************************************)
(* Brain._update_matrices.  One step of its loop handles one file of the   *)
(* list; st carries the two fields, what was read and assigned so far, and *)
(* the position of the file at which the method returned early (0: the     *)
(* loop ran to its end).                                                   *)
(***************************************************************************)
UpdateLevels == 0..2

\* vox2ras_needs_update with 'update > 2' for 'update >= 2'
Vox2rasNeedsUpdateOffByOne(v, update) == update > 2 \/ v = None

\* vox2ras_needs_update with 'update >= 1' for 'update >= 2'
Vox2rasNeedsUpdateFromLevel1(v, update) == update >= 1 \/ v = None

\* vox2ras_needs_update
Vox2rasNeedsUpdate(v, update) == update >= 2 \/ v = None

\* vox2ras_tkr_needs_update without the test 'update == 1'
TkrNeedsUpdateAnyLevel(t, f, update) ==
    \/ update >= 2
    \/ t = None
    \/ (t # None /\ t[1].extra.source_format # "mgz" /\ EndsWithMgz(f))

\* vox2ras_tkr_needs_update without the test of the stored source_format
TkrNeedsUpdateAnyMgz(t, f, update) ==
    \/ update >= 2
    \/ t = None
    \/ (update = 1 /\ EndsWithMgz(f))

\* vox2ras_tkr_needs_update.  The code compares the stored source_format
\* with the literal "mgz" by identity ('is not'); both are the same interned
\* constant in CPython and compare by value in PyPy, so the test is one of
\* equality.
TkrNeedsUpdate(t, f, update) ==
    \/ update >= 2
    \/ t = None
    \/ (t # None /\ update = 1 /\ t[1].extra.source_format # "mgz" /\ EndsWithMgz(f))

\* the loop without its early stop
EarlyStopNever(v_needs, t_needs, update) == FALSE

\* the early stop at the end of the loop body
EarlyStop(v_needs, t_needs, update) == ~v_needs /\ ~t_needs /\ update < 2

FileStep(st, f, pos, update) ==
    IF ~PathExists(f) THEN st
    ELSE
      LET v_needs == Vox2rasNeedsUpdate(st.vox2ras, update)
          t_needs == TkrNeedsUpdate(st.vox2ras_tkr, f, update)
      IN  [vox2ras     |-> IF v_needs THEN Some(VolumeVox2ras(f)) ELSE st.vox2ras,
           vox2ras_tkr |-> IF t_needs THEN Some(VolumeVox2rasTkr(f)) ELSE st.vox2ras_tkr,
           reads       |-> IF v_needs \/ t_needs THEN Append(st.reads, f.id) ELSE st.reads,
           writes      |-> st.writes
                             \o (IF v_needs THEN << <<"_vox2ras", f.id>> >> ELSE <<>>)
                             \o (IF t_needs THEN << <<"_vox2ras_tkr", f.id>> >> ELSE <<>>),
           stopped_at  |-> IF EarlyStop(v_needs, t_needs, update) THEN pos ELSE 0]

RECURSIVE UpdateLoop(_, _, _, _)
UpdateLoop(st, volume_files, pos, update) ==
    IF pos > Len(volume_files) \/ st.stopped_at # 0 THEN st
    ELSE UpdateLoop(FileStep(st, volume_files[pos], pos, update),
                    volume_files, pos + 1, update)

\* the whole method: what it leaves in the two fields, and what it did
UpdateMatricesRun(v, t, volume_files, update) ==
    UpdateLoop([vox2ras |-> v, vox2ras_tkr |-> t, reads |-> <<>>, writes |-> <<>>,
                stopped_at |-> 0],
               volume_files, 1, update)

RECURSIVE SeqsUpTo(_, _)
SeqsUpTo(S, n) ==
    IF n = 0 THEN {<<>>}
    ELSE LET shorter == SeqsUpTo(S, n - 1)
         IN  shorter \cup {Append(s, x) : s \in {q \in shorter : Len(q) = n - 1}, x \in S}

FileLists == SeqsUpTo(VolumeFiles, MaxListLen)

(***************************************************************************)
(* The base transform getters and the derived transforms.                  *)
(***************************************************************************)
SUPPORTED_SPACES == {"ras", "ras_tkr", "voxel", "mni305", "mni152"}

\* CONSTANTS.MNI305_TO_MNI152, its coefficients rounded to integers
\* (0.9975 -> 1, 1.5496 -> 2, 1.184 -> 1, the others -> 0)
MNI305_TO_MNI152 ==
    Mat44(<< <<1, 0, 0, 0>>, <<0, 1, 0, 2>>, <<0, 0, 1, 1>>, <<0, 0, 0, 1>> >>,
          "mni305", "mni152", "T1", "T1")

\* isinstance(x, Mat44), for a field that holds None, a Mat44 or another object
IsMat44(x) == x # None /\ Len(x) = 1

\* the variant of the stand-in that does not say it is one
UnflaggedEye(space_from, space_to) == Mat44Eye(space_from, space_to)

MissingEye(space_from, space_to) ==
    [Mat44Eye(space_from, space_to) EXCEPT !.extra.missing = TRUE]

\* Brain.vox2ras
vox2ras == IF IsMat44(_vox2ras) THEN _vox2ras[1] ELSE MissingEye("voxel", "ras")

\* Brain.vox2ras_tkr
vox2ras_tkr ==
    IF IsMat44(_vox2ras_tkr) THEN _vox2ras_tkr[1] ELSE MissingEye("voxel", "ras_tkr")

\* Brain.ras2mni_305
ras2mni_305 ==
    IF IsMat44(_ras2mni_305) THEN _ras2mni_305[1] ELSE MissingEye("ras", "mni305")

\* Brain.ras2ras_tkr
ras2ras_tkr == MulR(Ok(vox2ras_tkr), InvertR(Ok(vox2ras)))

\* Brain.ras2mni_152
ras2mni_152 == MulR(Ok(MNI305_TO_MNI152), Ok(ras2mni_305))

\* Brain.ras_tkr2mni_305
ras_tkr2mni_305 == MulR(MulR(Ok(ras2mni_305), Ok(vox2ras)), InvertR(Ok(vox2ras_tkr)))

\* Brain.ras_tkr2mni_152
ras_tkr2mni_152 == MulR(Ok(MNI305_TO_MNI152), ras_tkr2mni_305)

\* deepcopy(r)
DeepCopyR(r) == IF r.err # "" THEN r ELSE Ok(Mat44DeepCopy(Val(r)))

\* the first leg without the inversions
ToRasDirect(space_from) ==
    IF space_from = "ras" THEN Ok(Mat44Eye("ras", "ras"))
    ELSE IF space_from = "ras_tkr" THEN DeepCopyR(ras2ras_tkr)
    ELSE IF space_from = "mni305" THEN DeepCopyR(Ok(ras2mni_305))
    ELSE IF space_from = "mni152" THEN DeepCopyR(ras2mni_152)
    ELSE DeepCopyR(Ok(vox2ras))

\* the first leg of get_transform: space_from to ras
ToRas(space_from) ==
    IF space_from = "ras" THEN Ok(Mat44Eye("ras", "ras"))
    ELSE IF space_from = "ras_tkr" THEN DeepCopyR(InvertR(ras2ras_tkr))
    ELSE IF space_from = "mni305" THEN DeepCopyR(InvertR(Ok(ras2mni_305)))
    ELSE IF space_from = "mni152" THEN DeepCopyR(InvertR(ras2mni_152))
    ELSE DeepCopyR(Ok(vox2ras))

\* the second leg with ras2mni_305 in the mni152 branch
FromRasMni152As305(transform, space_to) ==
    IF transform.err # "" THEN transform
    ELSE IF space_to = "ras" THEN transform
    ELSE IF space_to = "ras_tkr" THEN MulR(ras2ras_tkr, transform)
    ELSE IF space_to = "mni305" THEN MulR(Ok(ras2mni_305), transform)
    ELSE IF space_to = "mni152" THEN MulR(Ok(ras2mni_305), transform)
    ELSE MulR(InvertR(Ok(vox2ras)), transform)

\* the second leg of get_transform: ras to space_to, applied after transform
FromRas(transform, space_to) ==
    IF transform.err # "" THEN transform
    ELSE IF space_to = "ras" THEN transform
    ELSE IF space_to = "ras_tkr" THEN MulR(ras2ras_tkr, transform)
    ELSE IF space_to = "mni305" THEN MulR(Ok(ras2mni_305), transform)
    ELSE IF space_to = "mni152" THEN MulR(ras2mni_152, transform)
    ELSE MulR(InvertR(Ok(vox2ras)), transform)

\* Brain.get_transform
GetTransform(space_from, space_to) ==
    IF space_from \notin SUPPORTED_SPACES
    THEN Raise("ValueError: Invalid space_from")
    ELSE IF space_to \notin SUPPORTED_SPACES
    THEN Raise("ValueError: Invalid space_to")
    ELSE IF space_from = space_to
    THEN Ok(Mat44(Eye4, space_from, space_to, "T1", "T1"))
    ELSE FromRas(ToRas(space_from), space_to)

(***************************************************************************)
(* The brain as a state machine.  The subject's folder holds none of the   *)
(* default volumes, so construction leaves _vox2ras and _vox2ras_tkr None; *)
(* _ras2mni_305 is what the constructor stored: the transform read from    *)
(* talairach.xfm, the rows read_xfm returned when they are not a Mat44, or *)
(* the identity of the except branch.                                      *)
(***************************************************************************)
XfmTransform ==
    Mat44(<< <<1, 0, 0, -1>>, <<0, 1, 0, -17>>, <<0, 0, 1, 9>>, <<0, 0, 0, 1>> >>,
          "ras", "mni305", "T1", "T1")

XfmRows == <<"list", "rows of talairach.xfm">>

CtorRas2mni305 == {Some(XfmTransform), XfmRows, Some(Mat44Eye("ras", "mni305"))}

\* a name that is no supported space
OtherSpaces == {"sphere"}

Init ==
    /\ _vox2ras = None
    /\ _vox2ras_tkr = None
    /\ _ras2mni_305 \in CtorRas2mni305
    /\ _electrode_contacts = <<>>
    /\ _geoms = <<>>
    /\ _electrode_cmaps = <<>>
    /\ seen = <<>>
    /\ table = NoTable
    /\ space = "ras"
    /\ call = NoCall
    /\ ret = NoResult
    /\ pre = NoPre
    /\ effects = NoEffects
    /\ lhs = Mat44Eye("ras", "ras")
    /\ rhs = Mat44Eye("ras", "ras")

Snapshot ==
    [vox2ras |-> _vox2ras, vox2ras_tkr |-> _vox2ras_tkr, ras2mni_305 |-> _ras2mni_305,
     contacts |-> _electrode_contacts, geoms |-> _geoms, cmaps |-> _electrode_cmaps]

\* the body of brain._update_matrices(volume_files, update), as one step
DoUpdateMatrices(volume_files, update, repeated) ==
    LET st == UpdateMatricesRun(_vox2ras, _vox2ras_tkr, volume_files, update)
    IN  /\ _vox2ras' = st.vox2ras
        /\ _vox2ras_tkr' = st.vox2ras_tkr
        /\ call' = [NoCall EXCEPT !.op = "update_matrices", !.files = volume_files,
                                  !.update = update, !.repeated = repeated]
        /\ ret' = Ok(None)
        /\ pre' = Snapshot
        /\ effects' = [reads |-> st.reads, writes |-> st.writes,
                       stopped_at |-> st.stopped_at]
        /\ UNCHANGED <<_ras2mni_305, _electrode_contacts, _geoms, _electrode_cmaps, seen, lhs, rhs, table, space>>

\* brain._update_matrices(volume_files, update)
UpdateMatrices(volume_files, update) ==
    /\ call.op = "none"
    /\ DoUpdateMatrices(volume_files, update, FALSE)

\* the caller makes the call it has just made once more, with the same arguments
RepeatUpdateMatrices ==
    /\ call.op = "update_matrices"
    /\ ~call.repeated
    /\ DoUpdateMatrices(call.files, call.update, TRUE)

\* brain.get_transform(space_from, space_to)
CallGetTransform(space_from, space_to) ==
    /\ call.op = "none"
    /\ call' = [NoCall EXCEPT !.op = "get_transform",
                              !.space_from = space_from, !.space_to = space_to]
    /\ ret' = GetTransform(space_from, space_to)
    /\ pre' = Snapshot
    /\ effects' = NoEffects
    /\ UNCHANGED <<_vox2ras, _vox2ras_tkr, _ras2mni_305, _electrode_contacts, _geoms, _electrode_cmaps, seen, lhs, rhs, table, space>>

\* the caller is done with the result; the brain is idle again
Return ==
    /\ call.op # "none"
    /\ call' = NoCall
    /\ ret' = NoResult
    /\ pre' = NoPre
    /\ effects' = NoEffects
    /\ UNCHANGED <<_vox2ras, _vox2ras_tkr, _ras2mni_305, _electrode_contacts, _geoms, _electrode_cmaps, seen, lhs, rhs, table, space>>

Next ==
    \/ \E volume_files \in FileLists, update \in UpdateLevels :
          UpdateMatrices(volume_files, update)
    \/ RepeatUpdateMatrices
    \/ \E space_from \in SUPPORTED_SPACES \cup OtherSpaces,
          space_to \in SUPPORTED_SPACES \cup OtherSpaces :
          CallGetTransform(space_from, space_to)
    \/ Return

Spec == Init /\ [][Next]_vars

(***************************************************************************)
(* Helpers of the statements about _update_matrices.                       *)
(***************************************************************************)
IsUpdateCall == call.op = "update_matrices"

ExistingPositions(files) == {i \in 1..Len(files) : PathExists(files[i])}

Max(S) == CHOOSE x \in S : \A y \in S : y <= x
Min(S) == CHOOSE x \in S : \A y \in S : x <= y

MgzSourced(t) == t # None /\ t[1].extra.source_format = "mgz"

\* the fields the call assigned
WrittenFields == {effects.writes[i][1] : i \in 1..Len(effects.writes)}

(***************************************************************************)
(* C2: for every ordered pair (A, B) of the five supported spaces and      *)
(* every state of the three base transforms, get_transform(A, B) raises    *)
(* nothing and returns a transform tagged A to B; it is the identity for   *)
(* A = B, and for A # B it is the leg ras to B applied after the leg A to  *)
(* ras.  A space outside the supported set is rejected with the error of   *)
(* the space check, no transform being returned.                           *)
(***************************************************************************)
C2_GetTransform ==
    call.op = "get_transform" =>
        LET A == call.space_from
            B == call.space_to
        IN  IF A \in SUPPORTED_SPACES /\ B \in SUPPORTED_SPACES
            THEN /\ IsOk(ret)
                 /\ Val(ret).space_from = A
                 /\ Val(ret).space_to = B
                 /\ A = B => Val(ret).mat = Eye4
                 /\ A # B =>
                      /\ IsOk(GetTransform(A, "ras"))
                      /\ IsOk(GetTransform("ras", B))
                      /\ Val(ret).mat = MatMul(Val(GetTransform("ras", B)).mat,
                                               Val(GetTransform(A, "ras")).mat)
            ELSE /\ ret.val = <<>>
                 /\ ret.err \in {"ValueError: Invalid space_from",
                                 "ValueError: Invalid space_to"}

\* mni152 to ras_tkr with all three base transforms set, from different files
C2_Witness ==
    /\ call.op = "get_transform"
    /\ call.space_from = "mni152"
    /\ call.space_to = "ras_tkr"
    /\ IsOk(ret)
    /\ IsMat44(_vox2ras) /\ IsMat44(_vox2ras_tkr) /\ IsMat44(_ras2mni_305)
    /\ _ras2mni_305[1].mat # Eye4
    /\ _vox2ras[1].mat[1][4] # _vox2ras_tkr[1].mat[3][4]

(***************************************************************************)
(* C3: for all supported pairs (A, B), get_transform(B, A) composed with   *)
(* the transform get_transform(A, B) returned is accepted by the tag check *)
(* and is the identity matrix tagged A to A.                               *)
(***************************************************************************)
C3_RoundTrip ==
    (/\ call.op = "get_transform"
     /\ call.space_from \in SUPPORTED_SPACES
     /\ call.space_to \in SUPPORTED_SPACES) =>
        LET back == GetTransform(call.space_to, call.space_from)
            both == MulR(back, ret)
        IN  /\ IsOk(both)
            /\ Val(both).mat = Eye4
            /\ Val(both).space_from = call.space_from
            /\ Val(both).space_to = call.space_from

\* a round trip voxel to mni152 and back through three non-identity transforms
C3_Witness ==
    /\ call.op = "get_transform"
    /\ call.space_from = "voxel"
    /\ call.space_to = "mni152"
    /\ IsOk(ret)
    /\ Val(ret).mat # Eye4
    /\ IsMat44(_vox2ras) /\ IsMat44(_vox2ras_tkr) /\ IsMat44(_ras2mni_305)
    /\ _ras2mni_305[1].mat # Eye4

(***************************************************************************)
(* C4: at update level 1, whenever vox2ras_tkr was not sourced from an MGZ *)
(* header and the list holds an existing .mgz file, vox2ras_tkr is         *)
(* MGZ-sourced after the call, whatever precedes that file in the list;    *)
(* and an MGZ file replacing a transform that is not MGZ-sourced is the    *)
(* only replacement of a set transform at level 1.                         *)
(***************************************************************************)
C4_MgzWinsAtLevel1 ==
    (IsUpdateCall /\ call.update = 1) =>
        /\ (/\ ~MgzSourced(pre.vox2ras_tkr)
            /\ \E i \in ExistingPositions(call.files) : EndsWithMgz(call.files[i]))
              => MgzSourced(_vox2ras_tkr)
        /\ pre.vox2ras # None => _vox2ras = pre.vox2ras
        /\ (pre.vox2ras_tkr # None /\ _vox2ras_tkr # pre.vox2ras_tkr)
              => (~MgzSourced(pre.vox2ras_tkr) /\ MgzSourced(_vox2ras_tkr))

(***************************************************************************)
(* C5: at update level 0 a base transform that is set is left as it is,    *)
(* for any list of files; a transform is assigned only when it was unset,  *)
(* and then from the first existing file of the list.                      *)
(***************************************************************************)
C5_Level0NeverOverwrites ==
    (IsUpdateCall /\ call.update = 0) =>
        /\ pre.vox2ras # None =>
              (_vox2ras = pre.vox2ras /\ "_vox2ras" \notin WrittenFields)
        /\ pre.vox2ras_tkr # None =>
              (_vox2ras_tkr = pre.vox2ras_tkr /\ "_vox2ras_tkr" \notin WrittenFields)
        /\ (pre.vox2ras = None /\ ExistingPositions(call.files) # {}) =>
              _vox2ras = Some(VolumeVox2ras(call.files[Min(ExistingPositions(call.files))]))
        /\ (pre.vox2ras_tkr = None /\ ExistingPositions(call.files) # {}) =>
              _vox2ras_tkr =
                  Some(VolumeVox2rasTkr(call.files[Min(ExistingPositions(call.files))]))

\* a level-0 call offering an existing .mgz file to a NIfTI-sourced vox2ras_tkr
C5_Witness ==
    /\ IsUpdateCall /\ call.update = 0
    /\ pre.vox2ras # None
    /\ pre.vox2ras_tkr # None /\ ~MgzSourced(pre.vox2ras_tkr)
    /\ Len(call.files) >= 1
    /\ PathExists(call.files[1]) /\ EndsWithMgz(call.files[1])

(***************************************************************************)
(* C6: at update level 2, after a call whose list holds at least one       *)
(* existing file, both base transforms are those of the last existing file *)
(* of the list, whatever they were before; the call stops early at no file *)
(* and reads every existing file.                                          *)
(***************************************************************************)
C6_Level2Overwrites ==
    (IsUpdateCall /\ call.update = 2 /\ ExistingPositions(call.files) # {}) =>
        LET last == call.files[Max(ExistingPositions(call.files))]
        IN  /\ _vox2ras = Some(VolumeVox2ras(last))
            /\ _vox2ras_tkr = Some(VolumeVox2rasTkr(last))
            /\ effects.stopped_at = 0
            /\ Len(effects.reads) = Cardinality(ExistingPositions(call.files))

\* a level-2 call that replaces MGZ-sourced transforms by those of a NIfTI file
C6_Witness ==
    /\ IsUpdateCall /\ call.update = 2
    /\ pre.vox2ras # None
    /\ MgzSourced(pre.vox2ras_tkr)
    /\ Len(call.files) = 2
    /\ PathExists(call.files[1]) /\ EndsWithMgz(call.files[1])
    /\ PathExists(call.files[2]) /\ ~EndsWithMgz(call.files[2])
    /\ _vox2ras # pre.vox2ras
    /\ ~MgzSourced(_vox2ras_tkr)

(***************************************************************************)
(* C7: repeating an identical call (same list, same level <= 1) is a       *)
(* no-op: the second call assigns neither field, so both keep the very     *)
(* object they held, in particular an MGZ-sourced vox2ras_tkr offered the  *)
(* same MGZ file again.                                                    *)
(***************************************************************************)
C7_RepeatIsNoOp ==
    (IsUpdateCall /\ call.repeated /\ call.update <= 1) =>
        /\ _vox2ras = pre.vox2ras
        /\ _vox2ras_tkr = pre.vox2ras_tkr
        /\ effects.writes = <<>>

\* the repeated level-1 call offers the MGZ file the first call took
\* vox2ras_tkr from, vox2ras being that of another, NIfTI, file
C7_Witness ==
    /\ IsUpdateCall /\ call.repeated /\ call.update = 1
    /\ Len(call.files) = 1
    /\ PathExists(call.files[1]) /\ EndsWithMgz(call.files[1])
    /\ _vox2ras_tkr = Some(VolumeVox2rasTkr(call.files[1]))
    /\ _vox2ras # None
    /\ _vox2ras # Some(VolumeVox2ras(call.files[1]))

(***************************************************************************)
(* Vec3 (core/vec3.py): three fixed-point coordinates, the set of the      *)
(* coordinates that are NaN (a NaN coordinate carries 0 in xyz), and the   *)
(* space tag.                                                              *)
(***************************************************************************)
Unit == 1000            \* the fixed-point image of 1.0

\* Vec3(x, y, z, space = space) on three numbers
Vec3(xyz, space_tag) == [xyz |-> xyz, nan |-> {}, space |-> space_tag]

\* Vec3(None, None, None, space = space): three NaN coordinates
Vec3NaN(space_tag) == [xyz |-> <<0, 0, 0>>, nan |-> {1, 2, 3}, space |-> space_tag]

\* Vec3(x), x a Vec3 or None: a copy that keeps the space, or NaN in "ras"
Vec3Of(x) == IF x = None THEN Vec3NaN("ras") ELSE x[1]

Abs(n) == IF n < 0 THEN 0 - n ELSE n

\* n * n for a fixed-point n, exact, as hi * 10^6 + lo
Square(n) ==
    LET a == Abs(n) \div Unit
        b == Abs(n) % Unit
    IN  [hi |-> a * a + ((2 * a * b) \div Unit),
         lo |-> ((2 * a * b) % Unit) * Unit + b * b]

\* Vec3.length, carried as its square (in squared units hi, in squared
\* thousandths lo < 10^6); NaN as soon as one coordinate is
Vec3Length(self) ==
    LET sx == Square(self.xyz[1])
        sy == Square(self.xyz[2])
        sz == Square(self.xyz[3])
        lo == sx.lo + sy.lo + sz.lo
    IN  [nan |-> self.nan # {},
         hi |-> sx.hi + sy.hi + sz.hi + (lo \div (Unit * Unit)),
         lo |-> lo % (Unit * Unit)]

\* one row of np.dot(mat44.mat, self._xyz), the fourth coordinate being 1.0
Vec3DotRow(m, xyz, i) ==
    m[i][1] * xyz[1] + m[i][2] * xyz[2] + m[i][3] * xyz[3] + m[i][4] * Unit

\* Vec3.applyMat44: a NaN coordinate makes every product NaN
Vec3ApplyMat44(self, mat44) ==
    IF self.space # mat44.space_from
    THEN Raise("ValueError: spaces must match")
    ELSE IF self.nan # {}
    THEN Ok([xyz |-> <<0, 0, 0>>, nan |-> {1, 2, 3}, space |-> mat44.space_to])
    ELSE Ok([xyz |-> <<Vec3DotRow(mat44.mat, self.xyz, 1),
                       Vec3DotRow(mat44.mat, self.xyz, 2),
                       Vec3DotRow(mat44.mat, self.xyz, 3)>>,
             nan |-> {},
             space |-> mat44.space_to])

\* re.applyMat44(brain.get_transform(...)), the transform possibly an error
Vec3ApplyR(self, transform) ==
    IF transform.err # "" THEN transform ELSE Vec3ApplyMat44(self, Val(transform))

\* one coordinate of a vector along one axis, after normalize() and
\* multiplyScalar(100.0)
Rescaled100(c) == IF c > 0 THEN 100 * Unit ELSE IF c < 0 THEN 0 - 100 * Unit ELSE 0

\* Vec3.normalize().multiplyScalar(100.0), on a vector along one axis
Vec3Rescale100(self) ==
    [self EXCEPT !.xyz = <<Rescaled100(self.xyz[1]), Rescaled100(self.xyz[2]),
                           Rescaled100(self.xyz[3])>>]

(***************************************************************************)
(* ElectrodeSphere (core/geom_sphere.py) and Brain.add_electrode_contact.  *)
(***************************************************************************)
SubjectCode == "sub01"

\* the default name of a contact: f"{subject_code}, {number} - {label}"
ContactName(number, label) == SubjectCode \o ", " \o ToString(number) \o " - " \o label

\* dict[key] = value
DictPut(d, key, value) ==
    [k \in DOMAIN d \cup {key} |-> IF k = key THEN value ELSE d[k]]

\* ElectrodeSphere.__init__ past its check of the number
ElectrodeSphere(number, label, position, radius, is_surface, hemisphere) ==
    [name |-> ContactName(number, label),
     number |-> number,
     _position |-> Vec3Of(position),
     radius |-> radius,
     is_surface |-> is_surface,
     hemisphere |-> hemisphere,
     _mni305_position |-> None,
     _sphere_position |-> Vec3(<<0, 0, 0>>, "sphere"),
     _keyframes |-> <<>>]

\* the end of set_mni_position: `moved` is the position brought to mni305
StoreMniPosition(self, moved) ==
    IF moved.err # "" THEN moved
    ELSE Ok([self EXCEPT !._mni305_position = Some(Val(moved))])

\* ElectrodeSphere.set_mni_position: the contact after the call, or the error
SetMniPosition(self, position) ==
    IF position.space \notin {"mni305", "mni152"}
    THEN Raise("ValueError: set_mni_position: Invalid position.space")
    ELSE StoreMniPosition(self,
            IF position.space = "mni152"
            THEN Vec3ApplyR(position, GetTransform("mni152", "mni305"))
            ELSE Ok(position))

\* ElectrodeSphere.set_sphere_position
SetSpherePosition(self, position) ==
    LET placed == [position EXCEPT !.space = "sphere"]
        l == Vec3Length(placed)
    IN  [self EXCEPT !._sphere_position =
            IF ~l.nan /\ (l.hi > 0 \/ l.lo > 1)
            THEN Vec3Rescale100(placed)
            ELSE Vec3(<<0, 0, 0>>, "sphere")]

\* ElectrodeSphere.get_position(space), world = False
GetPosition(self, space_to) ==
    IF space_to \in {"mni305", "mni152"} /\ self._mni305_position # None
    THEN LET re == [self._mni305_position[1] EXCEPT !.space = "mni305"]
         IN  IF space_to = "mni152"
             THEN Vec3ApplyR(re, GetTransform("mni305", "mni152"))
             ELSE Ok(re)
    ELSE IF space_to # self._position.space
    THEN Vec3ApplyR(self._position, GetTransform(self._position.space, space_to))
    ELSE Ok(self._position)

\* the variant of the end of add_electrode_contact that keeps what an
\* earlier contact of the same number had and the new one lacks
StoreContactMerging(contacts, geoms, contact) ==
    [err |-> "",
     contacts |-> DictPut(contacts, contact.number,
                     IF contact.number \in DOMAIN contacts
                        /\ contact._mni305_position = None
                     THEN [contact EXCEPT !._mni305_position =
                               contacts[contact.number]._mni305_position]
                     ELSE contact),
     geoms |-> DictPut(geoms, contact.name, contact)]

\* the end of add_electrode_contact: the contact is given its sphere
\* position and stored under its number; the geometry registry holds the
\* same object under its name
StoreContact(contacts, geoms, contact) ==
    [err |-> "",
     contacts |-> DictPut(contacts, contact.number, contact),
     geoms |-> DictPut(geoms, contact.name, contact)]

\* add_electrode_contact from the call of set_mni_position on; `made` is the
\* contact as constructed, already in the geometry registry
PlaceContact(contacts, geoms, made, with_mni, sphere_position) ==
    IF with_mni.err # ""
    THEN [err |-> with_mni.err, contacts |-> contacts,
          geoms |-> DictPut(geoms, made.name, made)]
    ELSE StoreContact(contacts, geoms,
            IF sphere_position # None
            THEN SetSpherePosition(Val(with_mni), sphere_position[1])
            ELSE Val(with_mni))

\* add_electrode_contact once the contact is constructed
SetUpContact(contacts, geoms, made, mni_position, sphere_position) ==
    PlaceContact(contacts, geoms, made,
                 IF mni_position # None THEN SetMniPosition(made, mni_position[1])
                 ELSE Ok(made),
                 sphere_position)

\* the registries after Brain.add_electrode_contact, or its error
AddElectrodeContact(contacts, geoms, number, label, position, is_surface, radius, mni_position, sphere_position, hemisphere) ==
    IF number <= 0
    THEN [err |-> "ValueError: Invalid electrode number, must start from 1.",
          contacts |-> contacts, geoms |-> geoms]
    ELSE SetUpContact(contacts, geoms,
            ElectrodeSphere(number, label, position,
                            IF radius = None
                            THEN (IF is_surface THEN 2 * Unit ELSE Unit)
                            ELSE radius[1],
                            is_surface, hemisphere),
            mni_position, sphere_position)

(***************************************************************************)
(* Brain.add_electrodes.  A table is its rows and whether it has the       *)
(* Electrode column.  A row holds, for each coordinate triple, << >> when  *)
(* the three cells are missing or NaN and <<x, y, z>> otherwise; Radius is *)
(* None when the column is missing; the strings the code inspects letter   *)
(* by letter (Hemisphere, FSLabel) are sequences of letters.               *)
(***************************************************************************)
MaxValidLength == 500

\* the variant of valid_length that lets the upper bound in
valid_length_inclusive(l) ==
    /\ ~l.nan
    /\ (l.hi > 0 \/ l.lo > 0)
    /\ (l.hi < MaxValidLength * MaxValidLength
        \/ (l.hi = MaxValidLength * MaxValidLength /\ l.lo = 0))

\* valid_length = lambda l: np.isfinite(l) and l > 0 and l < 500
valid_length(l) ==
    /\ ~l.nan
    /\ (l.hi > 0 \/ l.lo > 0)
    /\ l.hi < MaxValidLength * MaxValidLength

\* Vec3(x, y, z, space = space) on the three cells of a row
Vec3FromCells(cells, space_tag) ==
    IF cells = <<>> THEN Vec3NaN(space_tag) ELSE Vec3(cells, space_tag)

\* the variant of the chain that looks at Coord_* before x, y, z
ResolveNativeTkrFirst(xyz, tkr_ras, ras, mni305, mni152) ==
    IF valid_length(Vec3Length(tkr_ras)) THEN Some(tkr_ras)
    ELSE IF valid_length(Vec3Length(xyz)) THEN Some(xyz)
    ELSE IF valid_length(Vec3Length(ras)) THEN Some(ras)
    ELSE IF valid_length(Vec3Length(mni305)) THEN Some(mni305)
    ELSE IF valid_length(Vec3Length(mni152)) THEN Some(mni152)
    ELSE None

\* the if / elif chain that picks `position`
ResolveNative(xyz, tkr_ras, ras, mni305, mni152) ==
    IF valid_length(Vec3Length(xyz)) THEN Some(xyz)
    ELSE IF valid_length(Vec3Length(tkr_ras)) THEN Some(tkr_ras)
    ELSE IF valid_length(Vec3Length(ras)) THEN Some(ras)
    ELSE IF valid_length(Vec3Length(mni305)) THEN Some(mni305)
    ELSE IF valid_length(Vec3Length(mni152)) THEN Some(mni152)
    ELSE None

\* the variant of the MNI choice that prefers the MNI152 triple
ResolveMni152First(mni305, mni152) ==
    IF valid_length(Vec3Length(mni152)) THEN Some(mni152)
    ELSE IF valid_length(Vec3Length(mni305)) THEN Some(mni305)
    ELSE None

\* mni_position = mni305, then the two ifs that replace an invalid one
ResolveMni(mni305, mni152) ==
    IF valid_length(Vec3Length(mni305)) THEN Some(mni305)
    ELSE IF valid_length(Vec3Length(mni152)) THEN Some(mni152)
    ELSE None

UpperLetters == <<"A", "B", "C", "D", "E", "F", "G", "H", "I", "J", "K", "L", "M",
                  "N", "O", "P", "Q", "R", "S", "T", "U", "V", "W", "X", "Y", "Z">>
LowerLetters == <<"a", "b", "c", "d", "e", "f", "g", "h", "i", "j", "k", "l", "m",
                  "n", "o", "p", "q", "r", "s", "t", "u", "v", "w", "x", "y", "z">>

LowerLetter(c) ==
    IF \E i \in 1..Len(UpperLetters) : UpperLetters[i] = c
    THEN LowerLetters[CHOOSE i \in 1..Len(UpperLetters) : UpperLetters[i] = c]
    ELSE c

\* str.lower()
Lower(s) == [i \in 1..Len(s) |-> LowerLetter(s[i])]

StartsWith(s, prefix) ==
    Len(s) >= Len(prefix) /\ SubSeq(s, 1, Len(prefix)) = prefix

\* re.match(r"^(<word>|(ctx|wm)[_-]<xh>)", fs_label, re.IGNORECASE)
MatchesSide(fs_label, word, xh) ==
    LET l == Lower(fs_label)
    IN  \/ StartsWith(l, word)
        \/ \E tissue \in {<<"c", "t", "x">>, <<"w", "m">>}, sep \in {"_", "-"} :
              StartsWith(l, tissue \o <<sep>> \o xh)

\* the variant of the hemisphere choice that asks FSLabel first
ResolveHemisphereLabelFirst(hemisphere_cell, fs_label) ==
    IF MatchesSide(fs_label, <<"l", "e", "f", "t">>, <<"l", "h">>) THEN "left"
    ELSE IF MatchesSide(fs_label, <<"r", "i", "g", "h", "t">>, <<"r", "h">>) THEN "right"
    ELSE IF Len(hemisphere_cell) = 0 \/ Lower(hemisphere_cell)[1] \notin {"l", "r"}
    THEN "auto"
    ELSE IF Lower(hemisphere_cell)[1] = "l" THEN "left" ELSE "right"

\* the hemisphere of a row
ResolveHemisphere(hemisphere_cell, fs_label) ==
    LET hemisphere == Lower(hemisphere_cell)
    IN  IF Len(hemisphere) = 0 \/ hemisphere[1] \notin {"l", "r"}
        THEN IF MatchesSide(fs_label, <<"l", "e", "f", "t">>, <<"l", "h">>) THEN "left"
             ELSE IF MatchesSide(fs_label, <<"r", "i", "g", "h", "t">>, <<"r", "h">>)
             THEN "right"
             ELSE "auto"
        ELSE IF hemisphere[1] = "l" THEN "left" ELSE "right"

\* label = row.get("Label", "").strip(); the labels of the model have no
\* blanks around a non-blank text
Strip(label) == IF label = " " THEN "" ELSE label

\* the label of a row
RowLabel(electrode, stripped) ==
    IF stripped = "" THEN "NoLabel" \o ToString(electrode) ELSE stripped

\* sphere_position of a row
ResolveSphere(sphere) == IF valid_length(Vec3Length(sphere)) THEN Some(sphere) ELSE None

\* the body of the loop for one row
AddElectrodesRow(st, row, space_arg) ==
    AddElectrodeContact(
        st.contacts, st.geoms, row.Electrode,
        RowLabel(row.Electrode, Strip(row.Label)),
        ResolveNative(Vec3FromCells(row.xyz, space_arg),
                      Vec3FromCells(row.Coord, "ras_tkr"),
                      Vec3FromCells(row.T1, "ras"),
                      Vec3FromCells(row.MNI305, "mni305"),
                      Vec3FromCells(row.MNI152, "mni152")),
        row.SurfaceElectrode, row.Radius,
        ResolveMni(Vec3FromCells(row.MNI305, "mni305"),
                   Vec3FromCells(row.MNI152, "mni152")),
        ResolveSphere(Vec3FromCells(row.Sphere, "sphere")),
        ResolveHemisphere(row.Hemisphere, row.FSLabel))

\* the loop over the rows, from row ii on; an exception ends it
RECURSIVE AddElectrodesLoop(_, _, _, _)
AddElectrodesLoop(st, tbl, ii, space_arg) ==
    IF st.err # "" \/ ii > Len(tbl.rows) THEN st
    ELSE IF ~tbl.has_electrode_column
    THEN [st EXCEPT !.err = "KeyError: 'Electrode'"]
    ELSE AddElectrodesLoop(AddElectrodesRow(st, tbl.rows[ii], space_arg), tbl, ii + 1,
                           space_arg)

\* return len(self._electrode_contacts), or the exception that ended the loop
AddElectrodesResult(st) ==
    [contacts |-> st.contacts, geoms |-> st.geoms,
     ret |-> IF st.err # "" THEN Raise(st.err) ELSE Ok(Cardinality(DOMAIN st.contacts))]

\* Brain.add_electrodes(table, space): the registries after it and what it
\* returned or raised
AddElectrodesRun(contacts, geoms, tbl, space_arg) ==
    IF space_arg \notin SUPPORTED_SPACES
    THEN [contacts |-> contacts, geoms |-> geoms,
          ret |-> Raise("ValueError: Invalid space")]
    ELSE AddElectrodesResult(
            AddElectrodesLoop([err |-> "", contacts |-> contacts, geoms |-> geoms],
                              tbl, 1, space_arg))

(***************************************************************************)
(* Electrode resolution as a state machine: the table and the declared     *)
(* space are drawn when the run starts, on a brain as its constructor left *)
(* it; the action hands them to add_electrodes.                            *)
(***************************************************************************)
\* cells of x, y, z: missing, the origin, an ordinary point, length 499.999,
\* length 500.0 along an axis and off the axes
XyzCells == {<<>>, <<0, 0, 0>>, <<10000, 20000, 30000>>, <<499999, 0, 0>>,
             <<500000, 0, 0>>, <<300000, 0 - 400000, 0>>}
CoordCells == {<<>>, <<0, 0, 0>>, <<11000, 21000, 31000>>}
T1Cells == {<<>>, <<12000, 22000, 32000>>}
MNI305Cells == {<<>>, <<0, 0, 0>>, <<13000, 23000, 33000>>, <<0, 500000, 0>>}
MNI152Cells == {<<>>, <<14000, 24000, 34000>>, <<0, 0, 0 - 499999>>}
ElectrodeCells == {0, 1}

Rows ==
    [Electrode : ElectrodeCells, Label : {"LA1"},
     xyz : XyzCells, Coord : CoordCells, T1 : T1Cells,
     MNI305 : MNI305Cells, MNI152 : MNI152Cells,
     Sphere : {<<>>}, Radius : {None}, SurfaceElectrode : {FALSE},
     FSLabel : {<<"U", "n", "k", "n", "o", "w", "n">>},
     Hemisphere : {<<"a", "u", "t", "o">>}]

Tables == {[has_electrode_column |-> TRUE, rows |-> <<row>>] : row \in Rows}

DeclaredSpaces == {"ras", "ras_tkr", "mni305"} \cup OtherSpaces

InitResolve ==
    /\ table \in Tables
    /\ space \in DeclaredSpaces
    /\ _vox2ras = None
    /\ _vox2ras_tkr = None
    /\ _ras2mni_305 \in CtorRas2mni305
    /\ _electrode_contacts = <<>>
    /\ _geoms = <<>>
    /\ _electrode_cmaps = <<>>
    /\ seen = <<>>
    /\ call = NoCall
    /\ ret = NoResult
    /\ pre = NoPre
    /\ effects = NoEffects
    /\ lhs = Mat44Eye("ras", "ras")
    /\ rhs = Mat44Eye("ras", "ras")

\* brain.add_electrodes(table, space)
AddElectrodes ==
    /\ call.op = "none"
    /\ \E run \in {AddElectrodesRun(_electrode_contacts, _geoms, table, space)} :
           /\ _electrode_contacts' = run.contacts
           /\ _geoms' = run.geoms
           /\ ret' = run.ret
    /\ call' = [NoCall EXCEPT !.op = "add_electrodes"]
    /\ pre' = Snapshot
    /\ effects' = NoEffects
    /\ UNCHANGED <<_electrode_cmaps, seen, _vox2ras, _vox2ras_tkr, _ras2mni_305, lhs, rhs, table, space>>

NextResolve ==
    \/ AddElectrodes
    \/ Return

SpecResolve == InitResolve /\ [][NextResolve]_vars

(***************************************************************************)
(* Helpers of the statements about add_electrodes: the row the table       *)
(* holds, its five candidates in the order of the chain, and the contact   *)
(* the call created.                                                       *)
(***************************************************************************)
Row == table.rows[1]

Candidates ==
    <<Vec3FromCells(Row.xyz, space), Vec3FromCells(Row.Coord, "ras_tkr"),
      Vec3FromCells(Row.T1, "ras"), Vec3FromCells(Row.MNI305, "mni305"),
      Vec3FromCells(Row.MNI152, "mni152")>>

Passes(v) == valid_length(Vec3Length(v))

ValidCandidates == {i \in 1..5 : Passes(Candidates[i])}
ValidMniCandidates == {i \in 4..5 : Passes(Candidates[i])}

\* add_electrodes has run on a table it accepts
RowAdded ==
    /\ call.op = "add_electrodes"
    /\ space \in SUPPORTED_SPACES
    /\ table.has_electrode_column
    /\ Row.Electrode > 0

Contact == _electrode_contacts[Row.Electrode]

\* three cells of length exactly 500.0, of length 499.999, the origin
HasLength500(cells) ==
    /\ cells # <<>>
    /\ \A i \in 1..3 : cells[i] % Unit = 0
    /\ (cells[1] \div Unit) * (cells[1] \div Unit)
         + (cells[2] \div Unit) * (cells[2] \div Unit)
         + (cells[3] \div Unit) * (cells[3] \div Unit) = 500 * 500
HasLength499999(cells) ==
    /\ cells # <<>>
    /\ \E i \in 1..3 : Abs(cells[i]) = 499999 /\ \A j \in 1..3 \ {i} : cells[j] = 0
IsOrigin(cells) == cells = <<0, 0, 0>>

(***************************************************************************)
(* C8: the resolved native position of a row is the first of xyz (in the   *)
(* declared space), Coord_* (ras_tkr), T1R/T1A/T1S (ras), MNI305, MNI152   *)
(* that passes the validity predicate; a valid xyz wins over a valid       *)
(* Coord_* triple; with only the T1 triple populated the native position   *)
(* is the T1 triple; with no valid candidate the electrode is created all  *)
(* the same, its native position absent (NaN).                             *)
(***************************************************************************)
C8_NativePriority ==
    RowAdded =>
        /\ IsOk(ret)
        /\ Row.Electrode \in DOMAIN _electrode_contacts
        /\ IF ValidCandidates = {}
           THEN Contact._position = Vec3NaN("ras")
           ELSE Contact._position = Candidates[Min(ValidCandidates)]
        /\ (Passes(Candidates[1]) /\ Passes(Candidates[2])
              => /\ Contact._position = Vec3(Row.xyz, space)
                 /\ Contact._position # Vec3(Row.Coord, "ras_tkr"))
        /\ ((Row.T1 # <<>> /\ Row.xyz = <<>> /\ Row.Coord = <<>>
               /\ Row.MNI305 = <<>> /\ Row.MNI152 = <<>>)
              => Contact._position = Vec3(Row.T1, "ras"))

\* a row whose x, y, z are missing and whose Coord_* is the origin got the
\* T1 triple
C8_Witness ==
    /\ RowAdded
    /\ Row.xyz = <<>>
    /\ IsOrigin(Row.Coord)
    /\ Row.T1 # <<>>
    /\ Contact._position = Vec3(Row.T1, "ras")

MniCandidate == Candidates[Min(ValidMniCandidates)]

\* the native candidate of the row, when there is one
NativeCandidate == Candidates[Min(ValidCandidates)]

\* the MNI position is the MNI305 triple if valid, else the MNI152 triple
\* if valid, else absent, whatever the native candidates are
MniResolved ==
    /\ (ValidMniCandidates = {}) = (Contact._mni305_position = None)
    /\ Passes(Candidates[4]) =>
          Contact._mni305_position = Some(Vec3(Row.MNI305, "mni305"))
    /\ (~Passes(Candidates[4]) /\ Passes(Candidates[5])) =>
          GetPosition(Contact, "mni152") = Ok(Vec3(Row.MNI152, "mni152"))

(***************************************************************************)
(* C10 as the specification states it: the MNI position is the MNI305      *)
(* triple if valid, else the MNI152 triple if valid, else absent; when a   *)
(* row has a valid native and a valid MNI candidate the electrode holds    *)
(* both: its position in the native space equals the native candidate and  *)
(* its position in mni305 equals the MNI candidate.                        *)
(***************************************************************************)
C10_MniIsTheCandidate ==
    RowAdded =>
        /\ MniResolved
        /\ (ValidCandidates # {} /\ ValidMniCandidates # {}) =>
              /\ GetPosition(Contact, NativeCandidate.space) = Ok(NativeCandidate)
              /\ IsOk(GetPosition(Contact, "mni305"))
              /\ Val(GetPosition(Contact, "mni305")).xyz = MniCandidate.xyz

(***************************************************************************)
(* C10, amended: the MNI position is the MNI305 triple if valid, else the  *)
(* MNI152 triple if valid, else absent, independently of the native        *)
(* position; when a row has a valid native and a valid MNI candidate the   *)
(* electrode holds both, stored separately: the stored native position is  *)
(* the native candidate, and so is its position in the native space unless *)
(* that space is itself mni305 or mni152, where the MNI position answers;  *)
(* its position in mni305 is the MNI305 triple, or the image of the MNI152 *)
(* triple under get_transform(mni152, mni305) (its position in mni152 is   *)
(* then the MNI152 triple), never the affine image of the native one.      *)
(***************************************************************************)
C10_MniStoredSeparately ==
    RowAdded =>
        /\ MniResolved
        /\ (ValidCandidates # {} /\ ValidMniCandidates # {}) =>
              /\ Contact._position = NativeCandidate
              /\ NativeCandidate.space \notin {"mni305", "mni152"} =>
                    GetPosition(Contact, NativeCandidate.space) = Ok(NativeCandidate)
              /\ NativeCandidate.space \in {"mni305", "mni152"} =>
                    GetPosition(Contact, NativeCandidate.space) =
                        GetPosition([Contact EXCEPT !._position = Vec3NaN("ras")],
                                    NativeCandidate.space)
              /\ GetPosition(Contact, "mni305") =
                    IF MniCandidate.space = "mni305" THEN Ok(MniCandidate)
                    ELSE Vec3ApplyR(MniCandidate, GetTransform("mni152", "mni305"))
              /\ GetPosition(Contact, MniCandidate.space) = Ok(MniCandidate)

\* a row with valid x, y, z and only the MNI152 triple valid: the electrode
\* holds the native position and, in mni305, the image of the MNI152 triple
C10_Witness ==
    /\ RowAdded
    /\ Passes(Candidates[1])
    /\ ~Passes(Candidates[4])
    /\ Passes(Candidates[5])
    /\ Contact._position = Vec3(Row.xyz, space)
    /\ Contact._mni305_position # None
    /\ Contact._mni305_position[1].xyz # Row.MNI152
    /\ GetPosition(Contact, "mni152") = Ok(Vec3(Row.MNI152, "mni152"))

(***************************************************************************)
(* Hemisphere resolution as a state machine: the Hemisphere and FSLabel    *)
(* cells of a one-row table are drawn when the run starts; the action      *)
(* hands the table to add_electrodes.  The FSLabel cells are listed by     *)
(* what Python's re.match makes of them.                                   *)
(***************************************************************************)
\* FSLabel cells that ^(left|(ctx|wm)[_-]lh) matches, letter case ignored
LeftLabels ==
    {<<"c", "t", "x", "-", "l", "h", "-", "p", "r", "e", "c", "e", "n", "t", "r", "a", "l">>,
     <<"c", "t", "x", "_", "l", "h", "_", "a">>,
     <<"w", "m", "-", "l", "h", "-", "a">>,
     <<"W", "M", "_", "L", "H">>,
     <<"L", "e", "f", "t", "-", "H", "i", "p", "p">>,
     <<"L", "E", "F", "T">>,
     <<"l", "e", "f", "t", "o", "v", "e", "r">>,
     <<"w", "m", "-", "l", "h", "x">>}

\* FSLabel cells that ^(right|(ctx|wm)[_-]rh) matches, letter case ignored
RightLabels ==
    {<<"c", "t", "x", "-", "r", "h", "-", "p", "r", "e", "c", "e", "n", "t", "r", "a", "l">>,
     <<"w", "m", "_", "r", "h", "_", "a">>,
     <<"R", "i", "g", "h", "t", "-", "A", "m", "y", "g">>,
     <<"C", "t", "x", "_", "R", "h">>}

\* FSLabel cells that neither pattern matches
OtherLabels ==
    {<<"U", "n", "k", "n", "o", "w", "n">>,
     <<>>,
     <<"l", "h", "-", "c", "t", "x">>,
     <<"c", "t", "x", ".", "l", "h">>,
     <<"x", "c", "t", "x", "-", "l", "h">>,
     <<"c", "t", "x", "-", "l">>,
     <<"c", "t", "x", "l", "h">>,
     <<" ", "l", "e", "f", "t">>,
     <<"l", "e", "f">>,
     <<"c", "t", "x", "-", "-", "r", "h">>,
     <<"b", "r", "i", "g", "h", "t">>}

\* Hemisphere cells that start with l or L
LeftCells ==
    {<<"l">>,
     <<"L">>,
     <<"l", "e", "f", "t">>,
     <<"L", "E", "F", "T">>,
     <<"L", "x">>}

\* Hemisphere cells that start with r or R
RightCells ==
    {<<"r">>,
     <<"R">>,
     <<"R", "i", "g", "h", "t">>}

\* Hemisphere cells that start with neither, the default "auto" among them
AutoCells ==
    {<<"a", "u", "t", "o">>,
     <<>>,
     <<"b", "o", "t", "h">>,
     <<" ", "l", "e", "f", "t">>,
     <<"x">>,
     <<"A", "U", "T", "O">>}

HemisphereRows ==
    [Electrode : {1}, Label : {"LA1"},
     xyz : {<<10000, 20000, 30000>>}, Coord : {<<>>}, T1 : {<<>>},
     MNI305 : {<<>>}, MNI152 : {<<>>},
     Sphere : {<<>>}, Radius : {None}, SurfaceElectrode : {FALSE},
     FSLabel : LeftLabels \cup RightLabels \cup OtherLabels,
     Hemisphere : LeftCells \cup RightCells \cup AutoCells]

HemisphereTables == {[has_electrode_column |-> TRUE, rows |-> <<row>>] : row \in HemisphereRows}

InitHemisphere ==
    /\ table \in HemisphereTables
    /\ space = "ras"
    /\ _vox2ras = None
    /\ _vox2ras_tkr = None
    /\ _ras2mni_305 \in CtorRas2mni305
    /\ _electrode_contacts = <<>>
    /\ _geoms = <<>>
    /\ _electrode_cmaps = <<>>
    /\ seen = <<>>
    /\ call = NoCall
    /\ ret = NoResult
    /\ pre = NoPre
    /\ effects = NoEffects
    /\ lhs = Mat44Eye("ras", "ras")
    /\ rhs = Mat44Eye("ras", "ras")

SpecHemisphere == InitHemisphere /\ [][NextResolve]_vars

(***************************************************************************)
(* C11: a Hemisphere cell that starts with l or r, in either case, gives   *)
(* left or right whatever FSLabel says; otherwise an FSLabel matching      *)
(* ^(left|(ctx|wm)[_-]lh) gives left and one matching                      *)
(* ^(right|(ctx|wm)[_-]rh) gives right, letter case ignored, so that       *)
(* FSLabel ctx-lh-precentral with no explicit Hemisphere gives left; in    *)
(* every other case the hemisphere is auto.  It is always one of left,     *)
(* right, auto.                                                            *)
(***************************************************************************)
C11_Hemisphere ==
    RowAdded =>
        /\ IsOk(ret)
        /\ Contact.hemisphere \in {"left", "right", "auto"}
        /\ Row.Hemisphere \in LeftCells => Contact.hemisphere = "left"
        /\ Row.Hemisphere \in RightCells => Contact.hemisphere = "right"
        /\ (Row.Hemisphere \in AutoCells /\ Row.FSLabel \in LeftLabels)
              => Contact.hemisphere = "left"
        /\ (Row.Hemisphere \in AutoCells /\ Row.FSLabel \in RightLabels)
              => Contact.hemisphere = "right"
        /\ (Row.Hemisphere \in AutoCells /\ Row.FSLabel \in OtherLabels)
              => Contact.hemisphere = "auto"

\* FSLabel ctx-lh-precentral and the default Hemisphere gave left
C11_Witness ==
    /\ RowAdded
    /\ Row.Hemisphere = <<"a", "u", "t", "o">>
    /\ Row.FSLabel = <<"c", "t", "x", "-", "l", "h", "-", "p", "r", "e", "c", "e", "n", "t", "r", "a", "l">>
    /\ Contact.hemisphere = "left"

(***************************************************************************)
(* The electrode registry as a state machine: add_electrode_contact is     *)
(* called with numbers 0..MaxNumber and one of a few sets of arguments, on *)
(* a brain as its constructor left it.                                     *)
(***************************************************************************)
\* every optional argument given
ArgsFull ==
    [label |-> "LA1", position |-> Some(Vec3(<<10000, 20000, 30000>>, "ras")),
     is_surface |-> TRUE, radius |-> Some(1500),
     mni_position |-> Some(Vec3(<<13000, 23000, 33000>>, "mni305")),
     sphere_position |-> Some(Vec3(<<0, 0, 50000>>, "sphere")),
     hemisphere |-> "left"]

\* every optional argument left out
ArgsBare ==
    [label |-> "LB2", position |-> None, is_surface |-> FALSE, radius |-> None,
     mni_position |-> None, sphere_position |-> None, hemisphere |-> "auto"]

\* the label of ArgsFull, another position, an MNI152 position, the rest left out
ArgsMni152 ==
    [label |-> "LA1", position |-> Some(Vec3(<<11000, 21000, 31000>>, "ras_tkr")),
     is_surface |-> FALSE, radius |-> None,
     mni_position |-> Some(Vec3(<<14000, 24000, 34000>>, "mni152")),
     sphere_position |-> None, hemisphere |-> "right"]

\* an MNI position that is in no MNI space: set_mni_position raises
ArgsBadMni ==
    [ArgsFull EXCEPT !.mni_position = Some(Vec3(<<13000, 23000, 33000>>, "ras"))]

ContactArgs == {ArgsFull, ArgsBare, ArgsMni152, ArgsBadMni}

ContactNumbers == 0..MaxNumber

\* Brain.add_electrode_contact(number, **args) on the registries given
AddElectrodeContactWith(contacts, geoms, number, args) ==
    AddElectrodeContact(contacts, geoms, number, args.label, args.position,
                        args.is_surface, args.radius, args.mni_position,
                        args.sphere_position, args.hemisphere)

InitContacts ==
    /\ _vox2ras = None
    /\ _vox2ras_tkr = None
    /\ _ras2mni_305 \in CtorRas2mni305
    /\ _electrode_contacts = <<>>
    /\ _geoms = <<>>
    /\ _electrode_cmaps = <<>>
    /\ seen = <<>>
    /\ call = NoCall
    /\ ret = NoResult
    /\ pre = NoPre
    /\ effects = NoEffects
    /\ lhs = Mat44Eye("ras", "ras")
    /\ rhs = Mat44Eye("ras", "ras")
    /\ table = NoTable
    /\ space = "ras"

\* brain.add_electrode_contact(number, **args)
CallAddElectrodeContact(number, args) ==
    /\ call.op = "none"
    /\ \E run \in {AddElectrodeContactWith(_electrode_contacts, _geoms, number, args)} :
           /\ _electrode_contacts' = run.contacts
           /\ _geoms' = run.geoms
           /\ ret' = IF run.err # "" THEN Raise(run.err) ELSE Ok(run.contacts[number])
    /\ call' = [NoCall EXCEPT !.op = "add_electrode_contact", !.args = <<number, args>>]
    /\ pre' = Snapshot
    /\ effects' = NoEffects
    /\ UNCHANGED <<_electrode_cmaps, seen, _vox2ras, _vox2ras_tkr, _ras2mni_305, lhs, rhs, table, space>>

NextContacts ==
    \/ \E number \in ContactNumbers, args \in ContactArgs :
          CallAddElectrodeContact(number, args)
    \/ Return

SpecContacts == InitContacts /\ [][NextContacts]_vars

(***************************************************************************)
(* Helpers of the statements about the registry: the call just made, and   *)
(* the record the same call leaves on a brain that has no contact yet.     *)
(***************************************************************************)
ContactAdded == call.op = "add_electrode_contact" /\ ret.err = ""

CallNumber == call.args[1]
CallArgs == call.args[2]

FreshContact == AddElectrodeContactWith(<<>>, <<>>, CallNumber, CallArgs).contacts[CallNumber]

(***************************************************************************)
(* C12: after any sequence of add_electrode_contact calls the registry     *)
(* holds one record per distinct number, filed under its number, and the   *)
(* record of a number carries only the data of the latest call with that   *)
(* number (label, native position, MNI position, sphere position, radius,  *)
(* is_surface, hemisphere): it is the record that call leaves on a brain   *)
(* without contacts, whatever an earlier call with that number had set.    *)
(* The records of the other numbers are untouched.                         *)
(***************************************************************************)
C12_LatestCallWins ==
    /\ \A n \in DOMAIN _electrode_contacts : _electrode_contacts[n].number = n
    /\ ContactAdded =>
          /\ DOMAIN _electrode_contacts = DOMAIN pre.contacts \cup {CallNumber}
          /\ \A n \in DOMAIN pre.contacts \ {CallNumber} :
                _electrode_contacts[n] = pre.contacts[n]
          /\ _electrode_contacts[CallNumber] = FreshContact
          /\ _electrode_contacts[CallNumber].name = ContactName(CallNumber, CallArgs.label)
          /\ _electrode_contacts[CallNumber]._position = Vec3Of(CallArgs.position)
          /\ _electrode_contacts[CallNumber].is_surface = CallArgs.is_surface
          /\ _electrode_contacts[CallNumber].hemisphere = CallArgs.hemisphere
          /\ (CallArgs.radius # None =>
                _electrode_contacts[CallNumber].radius = CallArgs.radius[1])
          /\ (CallArgs.mni_position = None) =
                (_electrode_contacts[CallNumber]._mni305_position = None)
          /\ (CallArgs.sphere_position = None =>
                _electrode_contacts[CallNumber]._sphere_position = Vec3(<<0, 0, 0>>, "sphere"))

\* a contact that had every optional argument was replaced by one that has none
C12_Witness ==
    /\ ContactAdded
    /\ CallArgs = ArgsBare
    /\ CallNumber \in DOMAIN pre.contacts
    /\ pre.contacts[CallNumber]._mni305_position # None
    /\ pre.contacts[CallNumber]._sphere_position # Vec3(<<0, 0, 0>>, "sphere")
    /\ _electrode_contacts[CallNumber]._mni305_position = None
    /\ Cardinality(DOMAIN _electrode_contacts) = 2

(***************************************************************************)
(* C13: the getters vox2ras, vox2ras_tkr and ras2mni_305 always return a   *)
(* matrix: the stored one when the field holds a Mat44, and otherwise the  *)
(* identity with the tags of the getter (voxel to ras, voxel to ras_tkr,   *)
(* ras to mni305), flagged missing.  With all three missing get_transform  *)
(* still succeeds for every supported pair.                                *)
(***************************************************************************)
C13_GettersNeverNull ==
    /\ IF IsMat44(_vox2ras) THEN vox2ras = _vox2ras[1]
       ELSE /\ vox2ras.mat = Eye4 /\ vox2ras.extra.missing
            /\ vox2ras.space_from = "voxel" /\ vox2ras.space_to = "ras"
    /\ IF IsMat44(_vox2ras_tkr) THEN vox2ras_tkr = _vox2ras_tkr[1]
       ELSE /\ vox2ras_tkr.mat = Eye4 /\ vox2ras_tkr.extra.missing
            /\ vox2ras_tkr.space_from = "voxel" /\ vox2ras_tkr.space_to = "ras_tkr"
    /\ IF IsMat44(_ras2mni_305) THEN ras2mni_305 = _ras2mni_305[1]
       ELSE /\ ras2mni_305.mat = Eye4 /\ ras2mni_305.extra.missing
            /\ ras2mni_305.space_from = "ras" /\ ras2mni_305.space_to = "mni305"
    /\ (~IsMat44(_vox2ras) /\ ~IsMat44(_vox2ras_tkr) /\ ~IsMat44(_ras2mni_305)) =>
          \A A \in SUPPORTED_SPACES, B \in SUPPORTED_SPACES :
              /\ IsOk(GetTransform(A, B))
              /\ Val(GetTransform(A, B)).space_from = A
              /\ Val(GetTransform(A, B)).space_to = B
    /\ (call.op = "get_transform" /\ call.space_from \in SUPPORTED_SPACES
          /\ call.space_to \in SUPPORTED_SPACES) => IsOk(ret)

\* get_transform(voxel, mni152) answered with all three base transforms missing
C13_Witness ==
    /\ ~IsMat44(_vox2ras) /\ ~IsMat44(_vox2ras_tkr) /\ ~IsMat44(_ras2mni_305)
    /\ call.op = "get_transform"
    /\ call.space_from = "voxel"
    /\ call.space_to = "mni152"
    /\ IsOk(ret)
    /\ vox2ras.extra.missing /\ vox2ras_tkr.extra.missing /\ ras2mni_305.extra.missing

(***************************************************************************)
(* Construction as a state machine.  The run starts where Brain.__init__   *)
(* has set the three fields to None; the action is the rest of the         *)
(* constructor on a subject folder: the volumes of mri/ that exist, and    *)
(* what reading mri/transforms/talairach.xfm comes to (the file is absent  *)
(* and read_xfm raises, read_xfm returns rows that are no Mat44, read_xfm  *)
(* returns a Mat44).                                                       *)
(***************************************************************************)
\* the list ordered by prefix first: every slice name, then the atlas names
CtorNamesPrefixFirst ==
    << <<"brain.finalsurfs.mgz", "mgz">>, <<"T1.mgz", "mgz">>,
       <<"brain.finalsurfs.nii.gz", "nii.gz">>, <<"T1.nii.gz", "nii.gz">>,
       <<"T1.nii", "nii">>,
       <<"aseg.mgz", "mgz">>, <<"aseg.nii.gz", "nii.gz">> >>

\* the default volumes the folder may hold, in the order of the constructor's
\* list: the .mgz names, then the .nii.gz names, then the .nii names, each in
\* the order of the slice prefixes followed by the atlas prefixes
CtorNames ==
    << <<"brain.finalsurfs.mgz", "mgz">>, <<"T1.mgz", "mgz">>, <<"aseg.mgz", "mgz">>,
       <<"brain.finalsurfs.nii.gz", "nii.gz">>, <<"T1.nii.gz", "nii.gz">>,
       <<"aseg.nii.gz", "nii.gz">>,
       <<"T1.nii", "nii">> >>

\* the names of CtorNames with a prefix of DEFAULT_ATLAS_PREFIXIES
AtlasNames == {"aseg.mgz", "aseg.nii.gz"}

\* the constructor's volume_files for a folder that holds the names `existing`
CtorFiles(existing) ==
    [i \in 1..Len(CtorNames) |->
        [id |-> 10 + i, name |-> CtorNames[i][1], ext |-> CtorNames[i][2],
         exists |-> CtorNames[i][1] \in existing]]

Folders == SUBSET {CtorNames[i][1] : i \in 1..Len(CtorNames)}

XfmOutcomes == {"absent", "rows", "mat44"}

\* the try / except around read_xfm
CtorXfm(outcome) ==
    IF outcome = "absent" THEN Some(Mat44(Eye4, "ras", "mni305", "T1", "T1"))
    ELSE IF outcome = "rows" THEN XfmRows
    ELSE Some(XfmTransform)

InitCtor ==
    /\ _vox2ras = None
    /\ _vox2ras_tkr = None
    /\ _ras2mni_305 = None
    /\ _electrode_contacts = <<>>
    /\ _geoms = <<>>
    /\ _electrode_cmaps = <<>>
    /\ seen = <<>>
    /\ call = NoCall
    /\ ret = NoResult
    /\ pre = NoPre
    /\ effects = NoEffects
    /\ lhs = Mat44Eye("ras", "ras")
    /\ rhs = Mat44Eye("ras", "ras")
    /\ table = NoTable
    /\ space = "ras"

\* Brain(subject_code, path), from the call of _update_matrices on
Construct(existing, outcome) ==
    /\ call.op = "none"
    /\ _ras2mni_305 = None
    /\ \E st \in {UpdateMatricesRun(_vox2ras, _vox2ras_tkr, CtorFiles(existing), 1)} :
           /\ _vox2ras' = st.vox2ras
           /\ _vox2ras_tkr' = st.vox2ras_tkr
           /\ effects' = [reads |-> st.reads, writes |-> st.writes,
                          stopped_at |-> st.stopped_at]
    /\ _ras2mni_305' = CtorXfm(outcome)
    /\ call' = [NoCall EXCEPT !.op = "Brain", !.args = <<existing, outcome>>,
                              !.files = CtorFiles(existing), !.update = 1]
    /\ ret' = Ok(None)
    /\ pre' = Snapshot
    /\ UNCHANGED <<_electrode_contacts, _geoms, _electrode_cmaps, seen, lhs, rhs, table, space>>

NextCtor ==
    \/ \E existing \in Folders, outcome \in XfmOutcomes : Construct(existing, outcome)
    \/ Return

SpecCtor == InitCtor /\ [][NextCtor]_vars

(***************************************************************************)
(* C14 as the specification states it: when reading the registration file  *)
(* fails at construction, construction succeeds and the ras2mni_305 served *)
(* afterwards is the identity tagged ras to mni305 and flagged missing;    *)
(* when reading succeeds the served transform is the one read, not flagged *)
(* missing.                                                                *)
(***************************************************************************)
C14_XfmFallbackFlagged ==
    call.op = "Brain" =>
        /\ IsOk(ret)
        /\ call.args[2] = "absent" =>
              /\ ras2mni_305.mat = Eye4
              /\ ras2mni_305.space_from = "ras" /\ ras2mni_305.space_to = "mni305"
              /\ ras2mni_305.extra.missing
        /\ call.args[2] = "mat44" =>
              /\ ras2mni_305 = XfmTransform
              /\ ~ras2mni_305.extra.missing

(***************************************************************************)
(* Brain.set_transform_space.  The argument `transform` is an object:      *)
(* Some(m) for a Mat44 m, anything else for what is no Mat44.              *)
(***************************************************************************)
\* the two modality tests of set_transform_space
ModalityAnchored(transform, space_from, space_to) ==
    /\ (transform.modality_from # "T1" => transform.space_from = space_from)
    /\ (transform.modality_to # "T1" => transform.space_to = space_to)

\* re = re * get_transform(space_from, transform.space_from), when modality_from is T1
PromoteFrom(transform, re, space_from) ==
    IF transform.modality_from = "T1"
    THEN MulR(re, GetTransform(space_from, transform.space_from))
    ELSE re

\* re = get_transform(transform.space_to, space_to) * re, when modality_to is T1
PromoteTo(transform, re, space_to) ==
    IF re.err # "" THEN re
    ELSE IF transform.modality_to = "T1"
    THEN MulR(GetTransform(transform.space_to, space_to), re)
    ELSE re

\* set_transform_space without its two modality tests
SetTransformSpaceNoModalityCheck(transform, space_from, space_to) ==
    IF ~IsMat44(transform)
    THEN Raise("TypeError: Invalid transform matrix")
    ELSE IF space_from \notin SUPPORTED_SPACES
    THEN Raise("ValueError: Invalid space_from")
    ELSE IF space_to \notin SUPPORTED_SPACES
    THEN Raise("ValueError: Invalid space_to")
    ELSE PromoteTo(transform[1],
                   PromoteFrom(transform[1], Ok(Mat44DeepCopy(transform[1])), space_from),
                   space_to)

\* set_transform_space that only rewrites the space tags of the copy
SetTransformSpaceRetagged(transform, space_from, space_to) ==
    IF ~IsMat44(transform)
    THEN Raise("TypeError: Invalid transform matrix")
    ELSE IF space_from \notin SUPPORTED_SPACES
    THEN Raise("ValueError: Invalid space_from")
    ELSE IF space_to \notin SUPPORTED_SPACES
    THEN Raise("ValueError: Invalid space_to")
    ELSE IF ~ModalityAnchored(transform[1], space_from, space_to)
    THEN Raise("ValueError: Invalid transform matrix")
    ELSE Ok(Mat44(transform[1].mat, space_from, space_to,
                  transform[1].modality_from, transform[1].modality_to))

\* Brain.set_transform_space
SetTransformSpace(transform, space_from, space_to) ==
    IF ~IsMat44(transform)
    THEN Raise("TypeError: Invalid transform matrix")
    ELSE IF space_from \notin SUPPORTED_SPACES
    THEN Raise("ValueError: Invalid space_from")
    ELSE IF space_to \notin SUPPORTED_SPACES
    THEN Raise("ValueError: Invalid space_to")
    ELSE IF ~ModalityAnchored(transform[1], space_from, space_to)
    THEN Raise("ValueError: Invalid transform matrix")
    ELSE PromoteTo(transform[1],
                   PromoteFrom(transform[1], Ok(Mat44DeepCopy(transform[1])), space_from),
                   space_to)

\* the transforms handed to set_transform_space: the index swap of the
\* docstring and a shift, under tags that are supported spaces or not
SetSpaceMats == {SwapIJ, Shift(MaxShift, 0, 0)}
SetSpaceTags == {"voxel", "ras", "mni152"} \cup OtherSpaces

SetSpaceTransforms ==
    {Some(Mat44(m, sf, st, mf, mt)) :
        m \in SetSpaceMats, sf \in SetSpaceTags, st \in SetSpaceTags,
        mf \in Modalities, mt \in Modalities} \cup {XfmRows}

RequestedSpaces == SUPPORTED_SPACES \cup OtherSpaces

\* the subject folders of the runs of set_transform_space
SetSpaceFolders == SUBSET {"T1.mgz", "T1.nii"}

\* brain.set_transform_space(transform, space_from, space_to); args holds the
\* transform as passed and the caller's object after the call, to which no
\* statement of the method assigns
CallSetTransformSpace(transform, space_from, space_to) ==
    /\ call.op = "none"
    /\ _ras2mni_305 # None
    /\ call' = [NoCall EXCEPT !.op = "set_transform_space",
                              !.space_from = space_from, !.space_to = space_to,
                              !.args = <<transform, transform>>]
    /\ ret' = SetTransformSpace(transform, space_from, space_to)
    /\ pre' = Snapshot
    /\ effects' = NoEffects
    /\ UNCHANGED <<_vox2ras, _vox2ras_tkr, _ras2mni_305, _electrode_contacts, _geoms, _electrode_cmaps, seen, lhs, rhs, table, space>>

NextSetSpace ==
    \/ \E existing \in SetSpaceFolders, outcome \in XfmOutcomes : Construct(existing, outcome)
    \/ \E transform \in SetSpaceTransforms, space_from \in RequestedSpaces,
          space_to \in RequestedSpaces :
          CallSetTransformSpace(transform, space_from, space_to)
    \/ Return

SpecSetSpace == InitCtor /\ [][NextSetSpace]_vars

\* what the call was made with
SetSpaceCall == call.op = "set_transform_space"
Transform == call.args[1]
TransformAfter == call.args[2]
SetSpaceAccepted == SetSpaceCall /\ IsOk(ret)

\* the transform carries a modality other than T1 on a side whose space is
\* not the requested one
ModalityMismatch(t, space_from, space_to) ==
    \/ t.modality_from # "T1" /\ t.space_from # space_from
    \/ t.modality_to # "T1" /\ t.space_to # space_to

BaseTransformsUnchanged ==
    /\ _vox2ras = pre.vox2ras
    /\ _vox2ras_tkr = pre.vox2ras_tkr
    /\ _ras2mni_305 = pre.ras2mni_305

(***************************************************************************)
(* C15: set_transform_space rejects a transform with a modality other than *)
(* T1 on a side whose space is not the requested space of that side, and   *)
(* rejects requested spaces that are not supported; whenever it rejects,   *)
(* it returns nothing and the transform passed and the brain's base        *)
(* transforms are as before the call.                                      *)
(***************************************************************************)
C15_Rejects ==
    SetSpaceCall =>
        /\ (IsMat44(Transform) /\ ModalityMismatch(Transform[1], call.space_from, call.space_to))
              => ~IsOk(ret)
        /\ (call.space_from \notin SUPPORTED_SPACES \/ call.space_to \notin SUPPORTED_SPACES)
              => ~IsOk(ret)
        /\ ~IsOk(ret) =>
              /\ ret.err # "" /\ ret.val = <<>>
              /\ TransformAfter = Transform
              /\ BaseTransformsUnchanged

\* a CT side that is not in the requested space has been rejected, on a brain
\* that has a vox2ras
C15_Witness ==
    /\ SetSpaceCall
    /\ IsMat44(Transform)
    /\ call.space_from \in SUPPORTED_SPACES /\ call.space_to \in SUPPORTED_SPACES
    /\ Transform[1].modality_to = "CT" /\ Transform[1].modality_from = "T1"
    /\ Transform[1].space_to # call.space_to
    /\ ~IsOk(ret)
    /\ IsMat44(_vox2ras)
    /\ TransformAfter = Transform

(***************************************************************************)
(* C16: an accepted set_transform_space(transform, space_from, space_to)   *)
(* returns a transform tagged space_from to space_to with the modalities   *)
(* of the input; when both modalities are T1 its matrix is that of         *)
(* get_transform(transform.space_to, space_to), times the input's, times   *)
(* that of get_transform(space_from, transform.space_from), so a voxel to  *)
(* voxel transform promoted to voxel to ras is vox2ras * transform; the    *)
(* transform passed is not changed by the call.                            *)
(***************************************************************************)
C16_Promotes ==
    SetSpaceAccepted =>
        /\ Val(ret).space_from = call.space_from
        /\ Val(ret).space_to = call.space_to
        /\ Val(ret).modality_from = Transform[1].modality_from
        /\ Val(ret).modality_to = Transform[1].modality_to
        /\ (Transform[1].modality_from = "T1" /\ Transform[1].modality_to = "T1") =>
              /\ IsOk(GetTransform(Transform[1].space_to, call.space_to))
              /\ IsOk(GetTransform(call.space_from, Transform[1].space_from))
              /\ Val(ret).mat =
                    MatMul(Val(GetTransform(Transform[1].space_to, call.space_to)).mat,
                           MatMul(Transform[1].mat,
                                  Val(GetTransform(call.space_from, Transform[1].space_from)).mat))
        /\ (/\ Transform[1].modality_from = "T1" /\ Transform[1].modality_to = "T1"
            /\ Transform[1].space_from = "voxel" /\ Transform[1].space_to = "voxel"
            /\ call.space_from = "voxel" /\ call.space_to = "ras") =>
              Val(ret).mat = MatMul(vox2ras.mat, Transform[1].mat)
        /\ TransformAfter = Transform

\* the example of the docstring: the index swap, voxel to voxel, promoted to
\* voxel to ras on a brain whose vox2ras was read from a volume
C16_Witness ==
    /\ SetSpaceAccepted
    /\ IsMat44(_vox2ras)
    /\ Transform = Some(Mat44(SwapIJ, "voxel", "voxel", "T1", "T1"))
    /\ call.space_from = "voxel" /\ call.space_to = "ras"
    /\ Val(ret).mat = MatMul(vox2ras.mat, SwapIJ)
    /\ Val(ret).mat # SwapIJ

(***************************************************************************)
(* Inversion as a state machine: one tagged matrix M is drawn when the run *)
(* starts; the actions evaluate ~M, (~M) * M and ~(~M).                    *)
(***************************************************************************)
InitInvert ==
    /\ lhs \in TaggedMats
    /\ rhs = Mat44Eye("ras", "ras")
    /\ _vox2ras = None
    /\ _vox2ras_tkr = None
    /\ _ras2mni_305 = None
    /\ _electrode_contacts = <<>>
    /\ _geoms = <<>>
    /\ _electrode_cmaps = <<>>
    /\ seen = <<>>
    /\ table = NoTable
    /\ space = "ras"
    /\ call = NoCall
    /\ ret = NoResult
    /\ pre = NoPre
    /\ effects = NoEffects

\* the expression `op` has been evaluated to r
Evaluated(op, r) ==
    /\ call' = [NoCall EXCEPT !.op = op]
    /\ ret' = r
    /\ UNCHANGED <<_vox2ras, _vox2ras_tkr, _ras2mni_305, _electrode_contacts, _geoms, _electrode_cmaps, seen,
                   pre, effects, lhs, rhs, table, space>>

\* ~M
Invert ==
    /\ call.op = "none"
    /\ Evaluated("invert", InvertR(Ok(lhs)))

\* (~M) * M
InvertTimes ==
    /\ call.op = "none"
    /\ Evaluated("invert_times", MulR(InvertR(Ok(lhs)), Ok(lhs)))

\* ~(~M)
InvertTwice ==
    /\ call.op = "none"
    /\ Evaluated("invert_twice", InvertR(InvertR(Ok(lhs))))

NextInvert == Invert \/ InvertTimes \/ InvertTwice

SpecInvert == InitInvert /\ [][NextInvert]_vars

(***************************************************************************)
(* C17: ~M carries M's space and modality tags swapped; (~M) * M passes    *)
(* the tag test for every invertible M and is the identity matrix tagged   *)
(* from M.space_from to M.space_from; ~(~M) carries M's tags again.        *)
(***************************************************************************)
C17_Invert ==
    /\ call.op = "invert" =>
          /\ IsOk(ret)
          /\ Val(ret).space_from = lhs.space_to /\ Val(ret).space_to = lhs.space_from
          /\ Val(ret).modality_from = lhs.modality_to
          /\ Val(ret).modality_to = lhs.modality_from
    /\ call.op = "invert_times" =>
          /\ IsOk(ret)
          /\ Val(ret).mat = Eye4
          /\ Val(ret).space_from = lhs.space_from /\ Val(ret).space_to = lhs.space_from
    /\ call.op = "invert_twice" =>
          /\ IsOk(ret)
          /\ Val(ret).space_from = lhs.space_from /\ Val(ret).space_to = lhs.space_to
          /\ Val(ret).modality_from = lhs.modality_from
          /\ Val(ret).modality_to = lhs.modality_to

\* (~M) * M for an M that is no identity and whose two sides differ in space
\* and in modality
C17_Witness ==
    /\ call.op = "invert_times"
    /\ lhs.mat # Eye4
    /\ lhs.space_from # lhs.space_to
    /\ lhs.modality_from # lhs.modality_to
    /\ IsOk(ret)
    /\ Val(ret).mat = Eye4

\* the product was asked of operands whose spaces chain
SpacesChain == call.op = "mul" /\ lhs.space_from = rhs.space_to

(***************************************************************************)
(* C18 as the specification states it: left * right whose spaces chain     *)
(* succeeds when left.modality_from and right.modality_to differ but one   *)
(* of the two is T1.                                                       *)
(***************************************************************************)
C18_T1Wildcard ==
    (/\ SpacesChain
     /\ lhs.modality_from # rhs.modality_to
     /\ (lhs.modality_from = "T1" \/ rhs.modality_to = "T1"))
        => IsOk(ret)

(***************************************************************************)
(* C18 as the code has it: left * right whose spaces chain succeeds        *)
(* exactly when left.modality_from equals right.modality_to; T1 against    *)
(* another modality is rejected like any other mismatch.                   *)
(***************************************************************************)
C18_ModalitiesMustMatch ==
    SpacesChain => (IsOk(ret) <=> lhs.modality_from = rhs.modality_to)

\* T1 on the left against CT on the right, spaces chaining: rejected
C18_Witness ==
    /\ SpacesChain
    /\ lhs.modality_from = "T1" /\ rhs.modality_to = "CT"
    /\ ret.err # "" /\ ret.val = <<>>

(***************************************************************************)
(* SimpleKeyframe.  A value cell is Some(v) for a finite number v and None *)
(* for NaN; numbers are whole.  The names of the model are not reserved    *)
(* ones and hold no character that the constructor rewrites.               *)
(***************************************************************************)
KeepCell(cell, t, rest) ==
    IF cell # None
    THEN [value |-> <<cell[1]>> \o rest.value, time |-> <<t>> \o rest.time]
    ELSE rest

\* sel = np.isfinite(value); time[sel], value[sel]
RECURSIVE KeepFinite(_, _)
KeepFinite(value, time) ==
    IF value = <<>> THEN [value |-> <<>>, time |-> <<>>]
    ELSE KeepCell(Head(value), Head(time), KeepFinite(Tail(value), Tail(time)))

\* SimpleKeyframe.__init__ once time and value have the same length
MakeKeyframe(name, value, time, dtype) ==
    IF dtype = "continuous"
    THEN [name |-> name, _dtype |-> "continuous",
          _value |-> KeepFinite(value, time).value,
          _time |-> KeepFinite(value, time).time,
          _implicit_levels |-> {}]
    ELSE [name |-> name, _dtype |-> "discrete",
          _value |-> [i \in 1..Len(value) |-> value[i][1]],
          _time |-> time,
          _implicit_levels |-> {value[i][1] : i \in 1..Len(value)}]

\* SimpleKeyframe(name, value, time, dtype); time is None or Some(times)
SimpleKeyframe(name, value, time, dtype) ==
    IF time = None
    THEN IF Len(value) # 1
         THEN Raise("ValueError: Value must be a scalar when time is None")
         ELSE Ok(MakeKeyframe(name, value, <<0>>, dtype))
    ELSE IF Len(time[1]) # Len(value)
    THEN Raise("ValueError: Value, time lengths must equal")
    ELSE Ok(MakeKeyframe(name, value, time[1], dtype))

\* SimpleKeyframe.is_continuous
is_continuous(keyframe) == keyframe._dtype = "continuous"

SeqRange(s) == {s[i] : i \in 1..Len(s)}

\* SimpleKeyframe.range of a continuous keyframe: np.min and np.max raise on
\* an empty array
KeyframeRange(keyframe) ==
    IF keyframe._value = <<>>
    THEN Raise("ValueError: zero-size array to reduction operation minimum")
    ELSE Ok(<<Min(SeqRange(keyframe._value)), Max(SeqRange(keyframe._value))>>)

\* SimpleKeyframe.time_range
KeyframeTimeRange(keyframe) ==
    IF keyframe._time = <<>>
    THEN Raise("ValueError: zero-size array to reduction operation fmin")
    ELSE Ok(<<Min(SeqRange(keyframe._time)), Max(SeqRange(keyframe._time))>>)

(***************************************************************************)
(* ElectrodeColormap, without its palette.  symmetrical is True, False or  *)
(* a number: [flag |-> b, center |-> None] or [flag |-> TRUE, center |->   *)
(* Some(c)].                                                               *)
(***************************************************************************)
Min2(a, b) == IF a <= b THEN a ELSE b
Max2(a, b) == IF a >= b THEN a ELSE b

SymTrue == [flag |-> TRUE, center |-> None]
SymFalse == [flag |-> FALSE, center |-> None]
SymAround(c) == [flag |-> TRUE, center |-> Some(c)]

\* ElectrodeColormap.__init__ up to its call of update_from_keyframe
NewColormap(name, value_type) ==
    [name |-> name, _value_type |-> value_type, alias |-> name,
     _time_range |-> <<0, 0>>, _value_range |-> <<0, 0>>, _value_names |-> {},
     _hard_range |-> None, _initialized |-> FALSE, symmetrical |-> SymTrue]

\* lines 52-61: the time range
UpdatedTimeRange(self, time_range) ==
    IF self._initialized
    THEN <<Min2(self._time_range[1], time_range[1]), Max2(self._time_range[2], time_range[2])>>
    ELSE time_range

\* line 66-68
ValueMinAt68(self, value_min) ==
    IF self._initialized THEN Min2(self._value_range[1], value_min) ELSE value_min

\* line 69-71: the running maximum is assigned to value_min
ValueMinAt71(self, value_min, value_max) ==
    IF self._initialized THEN Max2(self._value_range[2], value_max) ELSE value_min

\* lines 72-76
ClippedRange(self, value_min, value_max) ==
    IF self._hard_range # None
    THEN <<Max2(value_min, self._hard_range[1][1]), Min2(value_max, self._hard_range[1][2])>>
    ELSE <<value_min, value_max>>

\* lines 62-76 for the range of a continuous keyframe
UpdatedValueRange(self, range) ==
    ClippedRange(self, ValueMinAt71(self, ValueMinAt68(self, range[1]), range[2]), range[2])

\* lines 48-80 of update_from_keyframe, the keyframe's time range in hand
UpdateRanges(self, keyframe, time_range) ==
    IF time_range.err # "" THEN time_range
    ELSE IF is_continuous(keyframe)
    THEN IF KeyframeRange(keyframe).err # "" THEN KeyframeRange(keyframe)
         ELSE Ok([self EXCEPT !._time_range = UpdatedTimeRange(self, Val(time_range)),
                              !._value_range = UpdatedValueRange(self, Val(KeyframeRange(keyframe))),
                              !._initialized = TRUE])
    ELSE Ok([self EXCEPT !._time_range = UpdatedTimeRange(self, Val(time_range)),
                         !._value_names = @ \cup keyframe._implicit_levels,
                         !._initialized = TRUE])

\* ElectrodeColormap.update_from_keyframe; keyframe is Some(k), or None for
\* what is no SimpleKeyframe.  The result is the colormap after the call.
update_from_keyframe(self, keyframe, ignore_name) ==
    IF keyframe = None THEN Ok(self)
    ELSE IF keyframe[1].name # self.name /\ ~ignore_name
    THEN Raise("ValueError: keyframe name does not match colormap name")
    ELSE IF self._value_type # "continuous" /\ is_continuous(keyframe[1])
    THEN Raise("ValueError: keyframe is continuous but colormap is discrete")
    ELSE IF self._value_type # "discrete" /\ ~is_continuous(keyframe[1])
    THEN Raise("ValueError: keyframe is discrete but colormap is continuous")
    ELSE UpdateRanges(self, keyframe[1], KeyframeTimeRange(keyframe[1]))

\* ElectrodeColormap(keyframe): the colormap named and typed after the keyframe
ColormapFromKeyframe(keyframe) ==
    update_from_keyframe(
        NewColormap(keyframe.name, IF is_continuous(keyframe) THEN "continuous" ELSE "discrete"),
        Some(keyframe), FALSE)

\* lines 127-135 and 147
SymmetricRange(vmin, vmax, sym) ==
    IF Max2(Abs(vmin), Abs(vmax)) = 0
    THEN <<sym - 1, sym + 1>>
    ELSE <<sym - Max2(Abs(vmin), Abs(vmax)), sym + Max2(Abs(vmin), Abs(vmax))>>

\* lines 136-147
PlainRange(vmin, vmax) == IF vmin = vmax THEN <<vmin, vmax + 1>> ELSE <<vmin, vmax>>

\* ElectrodeColormap.get_value_range
get_value_range(self, underlying) ==
    IF ~underlying /\ self._hard_range # None THEN self._hard_range[1]
    ELSE IF ~self._initialized \/ self._value_type = "discrete" THEN <<-1, 1>>
    ELSE IF self.symmetrical.flag
    THEN SymmetricRange(
            self._value_range[1] - (IF self.symmetrical.center = None THEN 0
                                    ELSE self.symmetrical.center[1]),
            self._value_range[2] - (IF self.symmetrical.center = None THEN 0
                                    ELSE self.symmetrical.center[1]),
            IF self.symmetrical.center = None THEN 0 ELSE self.symmetrical.center[1])
    ELSE PlainRange(self._value_range[1], self._value_range[2])

\* ElectrodeColormap.value_range
value_range(self) == get_value_range(self, FALSE)

\* ElectrodeColormap.set_hard_range for None or a pair of finite numbers
set_hard_range(self, value) == [self EXCEPT !._hard_range = value]

(***************************************************************************)
(* Values on electrode contacts and the colormaps of the brain.            *)
(***************************************************************************)
\* set_keyframe: the keyframe made of a list of numbers
ContactKeyframe(value, time, name) ==
    SimpleKeyframe(name, value, time, IF value = <<>> THEN "discrete" ELSE "continuous")

\* the history after the colormap `name` took the keyframe in
Took(history, name, keyframe) ==
    IF is_continuous(keyframe)
    THEN DictPut(history, name,
                 (IF name \in DOMAIN history THEN history[name] ELSE {})
                     \cup {Val(KeyframeRange(keyframe))})
    ELSE history

\* line 919, `colormap` being in the registry
FeedAgain(cmaps, history, name, keyframe, again) ==
    IF again.err # "" THEN [err |-> again.err, cmaps |-> cmaps, seen |-> history]
    ELSE [err |-> "", cmaps |-> DictPut(cmaps, name, Val(again)),
          seen |-> Took(history, name, keyframe)]

\* lines 916-919, `made` being the colormap constructed from the keyframe
FeedNew(cmaps, history, name, keyframe, made) ==
    IF made.err # "" THEN [err |-> made.err, cmaps |-> cmaps, seen |-> history]
    ELSE FeedAgain(DictPut(cmaps, name, Val(made)), Took(history, name, keyframe),
                   name, keyframe, update_from_keyframe(Val(made), Some(keyframe), FALSE))

\* lines 913-919 of set_electrode_values for one keyframe
FeedColormap(cmaps, history, name, keyframe) ==
    IF name \in DOMAIN cmaps
    THEN FeedAgain(cmaps, history, name, keyframe,
                   update_from_keyframe(cmaps[name], Some(keyframe), FALSE))
    ELSE FeedNew(cmaps, history, name, keyframe, ColormapFromKeyframe(keyframe))

\* the contact with the keyframe stored under its name; the geometry registry
\* holds the same object when the contact is the geometry of its name
WithKeyframe(contact, keyframe) ==
    [contact EXCEPT !._keyframes = DictPut(@, keyframe.name, keyframe)]

GeomsWithKeyframe(geoms, contact, keyframe) ==
    IF contact.name \in DOMAIN geoms /\ geoms[contact.name] = contact
    THEN DictPut(geoms, contact.name, WithKeyframe(contact, keyframe))
    ELSE geoms

\* the state the loop of set_electrode_values works on
ValuesState(err, contacts, geoms, cmaps, history) ==
    [err |-> err, contacts |-> contacts, geoms |-> geoms, cmaps |-> cmaps, seen |-> history]

\* lines 910-919 once set_electrode_value has returned `made`
StoreValue(st, number, name, made, fed) ==
    IF made.err # "" THEN [st EXCEPT !.err = made.err]
    ELSE ValuesState(fed.err,
                     DictPut(st.contacts, number, WithKeyframe(st.contacts[number], Val(made))),
                     GeomsWithKeyframe(st.geoms, st.contacts[number], Val(made)),
                     fed.cmaps, fed.seen)

\* the rows of one electrode
RowsOf(rows, electrode) == SelectSeq(rows, LAMBDA r : r.Electrode = electrode)

CellsOf(rows) == [i \in 1..Len(rows) |-> rows[i].value]
TimesOf(rows) == [i \in 1..Len(rows) |-> rows[i].Time]

\* one turn of the loop over the electrode numbers, for the column "value"
ValuesStep(st, electrode, made) ==
    IF st.err # "" THEN st
    ELSE IF electrode \notin DOMAIN st.contacts THEN st
    ELSE StoreValue(st, electrode, "value", made,
                    IF made.err # "" THEN [err |-> made.err, cmaps |-> st.cmaps, seen |-> st.seen]
                    ELSE FeedColormap(st.cmaps, st.seen, "value", Val(made)))

\* set_electrode_value(number, "value", the cells of the electrode, its times)
MadeKeyframe(values_table, electrode) ==
    ContactKeyframe(CellsOf(RowsOf(values_table.rows, electrode)),
                    IF values_table.has_time_column
                    THEN Some(TimesOf(RowsOf(values_table.rows, electrode)))
                    ELSE None,
                    "value")

\* electrodes.unique(): the numbers in the order of their first row
RECURSIVE Unique(_)
Unique(s) ==
    IF s = <<>> THEN <<>>
    ELSE IF Len(s) > 1 /\ s[Len(s)] \in {s[i] : i \in 1..(Len(s) - 1)}
    THEN Unique(SubSeq(s, 1, Len(s) - 1))
    ELSE Unique(SubSeq(s, 1, Len(s) - 1)) \o <<s[Len(s)]>>

RECURSIVE ValuesLoop(_, _, _)
ValuesLoop(st, values_table, electrodes) ==
    IF electrodes = <<>> THEN st
    ELSE ValuesLoop(ValuesStep(st, Head(electrodes),
                               MadeKeyframe(values_table, Head(electrodes))),
                    values_table, Tail(electrodes))

\* Brain.set_electrode_values on a table of the columns Electrode, Time
\* (optional) and value
SetElectrodeValuesRun(contacts, geoms, cmaps, history, values_table) ==
    IF ~values_table.has_electrode_column
    THEN ValuesState("LookupError: Invalid table, must contain column 'Electrode'.",
                     contacts, geoms, cmaps, history)
    ELSE ValuesLoop(ValuesState("", contacts, geoms, cmaps, history), values_table,
                    Unique([i \in 1..Len(values_table.rows) |-> values_table.rows[i].Electrode]))

(***************************************************************************)
(* The colormaps as a state machine: a brain, contacts 1 and 2 added with  *)
(* add_electrode_contact, tables of values for them, and the calls a user  *)
(* makes on a colormap of the brain.                                       *)
(***************************************************************************)
NaN == None

\* the value columns: the two ranges of the documentation, a single value,
\* a value that is no number
ValueColumns == {<<Some(-2), Some(5)>>, <<Some(-5), Some(2)>>, <<Some(2)>>, <<NaN>>}

ValueElectrodes == {1, 2}

\* the table of one electrode with the column given, and the table of the
\* two electrodes with one value each
TableOf(electrode, column) ==
    [i \in 1..Len(column) |-> [Electrode |-> electrode, Time |-> i - 1, value |-> column[i]]]

ValueRows ==
    {TableOf(electrode, column) : electrode \in ValueElectrodes, column \in ValueColumns}
    \cup {<<[Electrode |-> 1, Time |-> 0, value |-> Some(-5)],
            [Electrode |-> 2, Time |-> 0, value |-> Some(2)]>>}

ValueTables ==
    {[has_electrode_column |-> TRUE, has_time_column |-> has_time, rows |-> rows] :
        has_time \in BOOLEAN, rows \in ValueRows}
    \cup {[has_electrode_column |-> FALSE, has_time_column |-> FALSE,
           rows |-> TableOf(1, <<Some(2)>>)]}

\* the keyframes a user hands to a colormap directly
ContinuousKeyframes ==
    {Val(SimpleKeyframe(name, column, Some([i \in 1..Len(column) |-> i - 1]), "continuous")) :
        name \in {"value", "other"}, column \in {<<Some(-2), Some(5)>>, <<Some(-5), Some(2)>>}}

DiscreteKeyframes ==
    {Val(SimpleKeyframe("value", <<Some("A")>>, None, "discrete"))}

HardRanges == {None, Some(<<-3, 3>>)}
Symmetricals == {SymTrue, SymFalse, SymAround(1)}

InitColormap ==
    /\ _vox2ras = None
    /\ _vox2ras_tkr = None
    /\ _ras2mni_305 = Some(Mat44Eye("ras", "mni305"))
    /\ _electrode_contacts = <<>>
    /\ _geoms = <<>>
    /\ _electrode_cmaps = <<>>
    /\ seen = <<>>
    /\ call = NoCall
    /\ ret = NoResult
    /\ pre = NoPre
    /\ effects = NoEffects
    /\ lhs = Mat44Eye("ras", "ras")
    /\ rhs = Mat44Eye("ras", "ras")
    /\ table = NoTable
    /\ space = "ras"

\* brain.set_electrode_values(values_table)
CallSetElectrodeValues(values_table) ==
    /\ call.op = "none"
    /\ \E run \in {SetElectrodeValuesRun(_electrode_contacts, _geoms, _electrode_cmaps,
                                         seen, values_table)} :
           /\ _electrode_contacts' = run.contacts
           /\ _geoms' = run.geoms
           /\ _electrode_cmaps' = run.cmaps
           /\ seen' = run.seen
           /\ ret' = IF run.err # "" THEN Raise(run.err) ELSE Ok(None)
    /\ call' = [NoCall EXCEPT !.op = "set_electrode_values", !.args = <<values_table>>]
    /\ pre' = Snapshot
    /\ effects' = NoEffects
    /\ UNCHANGED <<_vox2ras, _vox2ras_tkr, _ras2mni_305, lhs, rhs, table, space>>

\* the registry and the history after colormap.update_from_keyframe returned
\* or raised `updated`
AfterUpdate(name, keyframe, updated) ==
    /\ _electrode_cmaps' = IF updated.err # "" THEN _electrode_cmaps
                           ELSE DictPut(_electrode_cmaps, name, Val(updated))
    /\ seen' = IF updated.err # "" THEN seen ELSE Took(seen, name, keyframe)
    /\ ret' = IF updated.err # "" THEN updated ELSE Ok(None)

\* brain.get_electrode_colormap(name).update_from_keyframe(keyframe, ignore_name)
CallUpdateFromKeyframe(name, keyframe, ignore_name) ==
    /\ call.op = "none"
    /\ name \in DOMAIN _electrode_cmaps
    /\ AfterUpdate(name, keyframe,
                   update_from_keyframe(_electrode_cmaps[name], Some(keyframe), ignore_name))
    /\ call' = [NoCall EXCEPT !.op = "update_from_keyframe",
                              !.args = <<name, keyframe, ignore_name>>]
    /\ pre' = Snapshot
    /\ effects' = NoEffects
    /\ UNCHANGED <<_vox2ras, _vox2ras_tkr, _ras2mni_305, _electrode_contacts, _geoms,
                   lhs, rhs, table, space>>

\* ElectrodeColormap(keyframe), a colormap of its own
CallColormapFromKeyframe(keyframe) ==
    /\ call.op = "none"
    /\ ret' = ColormapFromKeyframe(keyframe)
    /\ call' = [NoCall EXCEPT !.op = "ElectrodeColormap", !.args = <<keyframe>>]
    /\ pre' = Snapshot
    /\ effects' = NoEffects
    /\ UNCHANGED <<_vox2ras, _vox2ras_tkr, _ras2mni_305, _electrode_contacts, _geoms,
                   _electrode_cmaps, seen, lhs, rhs, table, space>>

\* an assignment to the colormap `name` of the brain has been made
Assigned(op, name, value, colormap) ==
    /\ _electrode_cmaps' = DictPut(_electrode_cmaps, name, colormap)
    /\ call' = [NoCall EXCEPT !.op = op, !.args = <<name, value>>]
    /\ ret' = Ok(None)
    /\ pre' = Snapshot
    /\ effects' = NoEffects
    /\ UNCHANGED <<_vox2ras, _vox2ras_tkr, _ras2mni_305, _electrode_contacts, _geoms,
                   seen, lhs, rhs, table, space>>

\* brain.get_electrode_colormap(name).set_hard_range(value)
CallSetHardRange(name, value) ==
    /\ call.op = "none"
    /\ name \in DOMAIN _electrode_cmaps
    /\ _electrode_cmaps[name]._hard_range # value
    /\ Assigned("set_hard_range", name, value, set_hard_range(_electrode_cmaps[name], value))

\* brain.get_electrode_colormap(name).symmetrical = value
SetSymmetrical(name, value) ==
    /\ call.op = "none"
    /\ name \in DOMAIN _electrode_cmaps
    /\ _electrode_cmaps[name].symmetrical # value
    /\ Assigned("symmetrical", name, value,
                [_electrode_cmaps[name] EXCEPT !.symmetrical = value])

NextColormap ==
    \/ \E number \in ValueElectrodes : CallAddElectrodeContact(number, ArgsBare)
    \/ \E values_table \in ValueTables : CallSetElectrodeValues(values_table)
    \/ \E keyframe \in ContinuousKeyframes, ignore_name \in BOOLEAN :
          CallUpdateFromKeyframe("value", keyframe, ignore_name)
    \/ \E keyframe \in DiscreteKeyframes : CallUpdateFromKeyframe("value", keyframe, FALSE)
    \/ \E keyframe \in ContinuousKeyframes : CallColormapFromKeyframe(keyframe)
    \/ \E value \in HardRanges : CallSetHardRange("value", value)
    \/ \E value \in Symmetricals : SetSymmetrical("value", value)
    \/ Return

SpecColormap == InitColormap /\ [][NextColormap]_vars

(***************************************************************************)
(* Helpers of the statements about the colormaps: the colormap "value" of  *)
(* the brain before and after the call, the range over what it took in.    *)
(***************************************************************************)
Colormap == _electrode_cmaps["value"]
ColormapBefore == pre.cmaps["value"]

\* update_from_keyframe has returned on a continuous colormap of the brain
\* that had taken keyframes in before
UpdatedAgain ==
    /\ call.op = "update_from_keyframe"
    /\ IsOk(ret)
    /\ Colormap._value_type = "continuous"
    /\ ColormapBefore._initialized

UpdateKeyframe == call.args[2]

\* set_electrode_values has returned and has built the colormap "value"
BuiltByValues ==
    /\ call.op = "set_electrode_values"
    /\ IsOk(ret)
    /\ "value" \notin DOMAIN pre.cmaps
    /\ "value" \in DOMAIN _electrode_cmaps

\* ElectrodeColormap(keyframe) has returned
BuiltFromKeyframe == call.op = "ElectrodeColormap" /\ IsOk(ret)

\* [min of the minima, max of the maxima] of a set of ranges
Hull(ranges) == <<Min({r[1] : r \in ranges}), Max({r[2] : r \in ranges})>>

\* [-m, m] for m the largest absolute value of a range
Symmetric(range) == <<0 - Max2(Abs(range[1]), Abs(range[2])), Max2(Abs(range[1]), Abs(range[2]))>>

Clip(range, hard) == <<Max2(range[1], hard[1]), Min2(range[2], hard[2])>>

(***************************************************************************)
(* C19 as the specification states it: a continuous colormap keeps the     *)
(* running range of its keyframes.  A colormap built by                    *)
(* set_electrode_values holds [min of the minima, max of the maxima] of    *)
(* the keyframes it took in; update_from_keyframe on a colormap that holds *)
(* [a, b] leaves [min(a, k.min), max(b, k.max)], clipped to the hard range *)
(* when one is set.                                                        *)
(***************************************************************************)
C19_RunningRange ==
    /\ BuiltByValues => Colormap._value_range = Hull(seen["value"])
    /\ (UpdatedAgain /\ ColormapBefore._hard_range = None) =>
          Colormap._value_range =
              Hull({ColormapBefore._value_range, Val(KeyframeRange(UpdateKeyframe))})
    /\ (UpdatedAgain /\ ColormapBefore._hard_range # None) =>
          Colormap._value_range =
              Clip(Hull({ColormapBefore._value_range, Val(KeyframeRange(UpdateKeyframe))}),
                   ColormapBefore._hard_range[1])

(***************************************************************************)
(* C20 as the specification states it: with symmetrical on and no hard     *)
(* range the displayed range is [-m, m], m the largest absolute value of   *)
(* the keyframe values taken in, whether the colormap was constructed from *)
(* a keyframe, built by set_electrode_values or updated by                 *)
(* update_from_keyframe.                                                   *)
(***************************************************************************)
C20_SymmetricalRange ==
    /\ BuiltFromKeyframe =>
          value_range(Val(ret)) = Symmetric(Val(KeyframeRange(call.args[1])))
    /\ BuiltByValues => value_range(Colormap) = Symmetric(Hull(seen["value"]))
    /\ (/\ UpdatedAgain
        /\ ColormapBefore._hard_range = None
        /\ Colormap.symmetrical = SymTrue
        /\ ColormapBefore._value_range[1] <= ColormapBefore._value_range[2]) =>
          value_range(Colormap) =
              Symmetric(Hull({ColormapBefore._value_range, Val(KeyframeRange(UpdateKeyframe))}))

(***************************************************************************)
(* The construction of keyframes as a state machine: each run constructs   *)
(* one SimpleKeyframe from a value and a time drawn from the sequences of  *)
(* at most MaxKeyframeLen cells.                                           *)
(***************************************************************************)
NumberCells == {Some(-1), Some(3), NaN}
LevelCells == {Some("A"), Some("B")}
TimeArgs == {None} \cup {Some(t) : t \in SeqsUpTo({0, 1}, MaxKeyframeLen)}

InitKeyframe ==
    /\ _vox2ras = None
    /\ _vox2ras_tkr = None
    /\ _ras2mni_305 = None
    /\ _electrode_contacts = <<>>
    /\ _geoms = <<>>
    /\ _electrode_cmaps = <<>>
    /\ seen = <<>>
    /\ call = NoCall
    /\ ret = NoResult
    /\ pre = NoPre
    /\ effects = NoEffects
    /\ lhs = Mat44Eye("ras", "ras")
    /\ rhs = Mat44Eye("ras", "ras")
    /\ table = NoTable
    /\ space = "ras"

\* SimpleKeyframe("value", value, time, dtype)
CallSimpleKeyframe(value, time, dtype) ==
    /\ call.op = "none"
    /\ call' = [NoCall EXCEPT !.op = "SimpleKeyframe", !.args = <<value, time, dtype>>]
    /\ ret' = SimpleKeyframe("value", value, time, dtype)
    /\ UNCHANGED <<_vox2ras, _vox2ras_tkr, _ras2mni_305, _electrode_contacts, _geoms,
                   _electrode_cmaps, seen, pre, effects, lhs, rhs, table, space>>

NextKeyframe ==
    \/ \E value \in SeqsUpTo(NumberCells, MaxKeyframeLen), time \in TimeArgs :
          CallSimpleKeyframe(value, time, "continuous")
    \/ \E value \in SeqsUpTo(LevelCells, MaxKeyframeLen), time \in TimeArgs :
          CallSimpleKeyframe(value, time, "discrete")

SpecKeyframe == InitKeyframe /\ [][NextKeyframe]_vars

\* the arguments of the construction and the keyframe constructed
KeyframeCall == call.op = "SimpleKeyframe"
ValueArg == call.args[1]
TimeArg == call.args[2]
DtypeArg == call.args[3]
TimesGiven == IF TimeArg = None THEN <<0>> ELSE TimeArg[1]
Constructed == KeyframeCall /\ IsOk(ret)

\* the indices of the finite values, and the k-th of them
FiniteAt == {i \in 1..Len(ValueArg) : ValueArg[i] # NaN}
NthFinite(k) == CHOOSE i \in FiniteAt : Cardinality({j \in FiniteAt : j <= i}) = k

(***************************************************************************)
(* C21 as the specification states it: a continuous keyframe holds exactly *)
(* the (time, value) pairs whose value is finite, in their order, so time  *)
(* and value have the same length; a scalar without time gets time 0; a    *)
(* value that is no scalar without time, and time and value of different   *)
(* lengths, are rejected; the time of every constructed keyframe has at    *)
(* least one element, also when no value is finite.                        *)
(***************************************************************************)
C21_KeyframeShape ==
    KeyframeCall =>
        /\ (TimeArg = None /\ Len(ValueArg) # 1) => ~IsOk(ret)
        /\ (TimeArg # None /\ Len(TimeArg[1]) # Len(ValueArg)) => ~IsOk(ret)
        /\ (Constructed /\ DtypeArg = "continuous") =>
              /\ Len(Val(ret)._value) = Cardinality(FiniteAt)
              /\ Len(Val(ret)._time) = Len(Val(ret)._value)
              /\ \A k \in 1..Len(Val(ret)._value) :
                    /\ Val(ret)._value[k] = ValueArg[NthFinite(k)][1]
                    /\ Val(ret)._time[k] = TimesGiven[NthFinite(k)]
        /\ Constructed => Len(Val(ret)._time) >= 1

(***************************************************************************)
(* The operations between two Vec3.  The coordinates of the operands are   *)
(* whole numbers other than 0 whose quotients are exact in the fixed       *)
(* point, or NaN; a scalar result is carried as [nan, val].                *)
(***************************************************************************)
FloorDiv(a, b) == IF b > 0 THEN a \div b ELSE (0 - a) \div (0 - b)

\* one coordinate of self <op> other
Arith(op, a, b) ==
    IF op = "__add__" THEN a + b
    ELSE IF op = "__sub__" THEN a - b
    ELSE IF op = "__mul__" THEN (a * b) \div Unit
    ELSE IF op = "__truediv__" THEN (a * Unit) \div b
    ELSE FloorDiv(a, b) * Unit

\* the coordinates of self <op> other: NaN where one of the two is
ArithXyz(op, self, other) ==
    [i \in 1..3 |-> IF i \in self.nan \cup other.nan THEN 0
                    ELSE Arith(op, self.xyz[i], other.xyz[i])]

\* __add__ .. __floordiv__ with no test of the spaces
Vec3OperatorNoSpaceCheck(op, self, other) ==
    Ok([xyz |-> ArithXyz(op, self, other), nan |-> self.nan \cup other.nan,
        space |-> self.space])

\* Vec3.__add__, __sub__, __mul__, __truediv__, __floordiv__ on a Vec3
Vec3Operator(op, self, other) ==
    IF self.space # other.space
    THEN Raise("ValueError: Vec3 " \o op \o ": spaces must match")
    ELSE Ok([xyz |-> ArithXyz(op, self, other), nan |-> self.nan \cup other.nan,
             space |-> self.space])

\* Vec3.add and Vec3.sub: self after the call
Vec3InPlace(op, self, vec3) ==
    IF self.space # vec3.space
    THEN Raise("ValueError: Vec3 " \o op \o ": spaces must match")
    ELSE Ok([self EXCEPT !.xyz = ArithXyz(IF op = "add" THEN "__add__" ELSE "__sub__",
                                          self, vec3),
                         !.nan = self.nan \cup vec3.nan])

\* Vec3.dot
Vec3Dot(self, vec3) ==
    IF self.space # vec3.space
    THEN Raise("ValueError: Vec3 dot: spaces must match")
    ELSE Ok([nan |-> self.nan \cup vec3.nan # {},
             val |-> ArithXyz("__mul__", self, vec3)[1] + ArithXyz("__mul__", self, vec3)[2]
                     + ArithXyz("__mul__", self, vec3)[3]])

\* the sum of the squared differences of the coordinates
SquaredDistance(self, vec3) ==
    [nan |-> self.nan \cup vec3.nan # {},
     val |-> ((self.xyz[1] - vec3.xyz[1]) * (self.xyz[1] - vec3.xyz[1])
              + (self.xyz[2] - vec3.xyz[2]) * (self.xyz[2] - vec3.xyz[2])
              + (self.xyz[3] - vec3.xyz[3]) * (self.xyz[3] - vec3.xyz[3])) \div Unit]

\* Vec3.distanceToSquared
Vec3DistanceToSquared(self, vec3) ==
    IF self.space # vec3.space
    THEN Raise("ValueError: Vec3 distanceToSquared: spaces must match")
    ELSE Ok(SquaredDistance(self, vec3))

\* Vec3.distanceTo, the distance carried as its square
Vec3DistanceTo(self, vec3) ==
    IF self.space # vec3.space
    THEN Raise("ValueError: Vec3 distanceTo: spaces must match")
    ELSE Ok([sqrt_of |-> SquaredDistance(self, vec3)])

(***************************************************************************)
(* The vector algebra as a state machine: two vectors are drawn when the   *)
(* run starts, one operation is applied.                                   *)
(***************************************************************************)
VecSpaces == {"ras", "ras_tkr", "voxel"}

VecOperands ==
    {Vec3(<<x[1] * Unit, x[2] * Unit, x[3] * Unit>>, s) :
        x \in {<<2, 4, -4>>, <<4, 2, 2>>}, s \in VecSpaces}
    \cup {Vec3NaN("ras")}

VecMats ==
    {Mat44(m, sf, st, "T1", "T1") :
        m \in {Shift(MaxShift, 0, 0), SwapIJ}, sf \in VecSpaces, st \in VecSpaces}

Operators == {"__add__", "__sub__", "__mul__", "__truediv__", "__floordiv__"}

InitVec3 ==
    /\ lhs \in VecOperands
    /\ rhs \in VecOperands
    /\ _vox2ras = None
    /\ _vox2ras_tkr = None
    /\ _ras2mni_305 = None
    /\ _electrode_contacts = <<>>
    /\ _geoms = <<>>
    /\ _electrode_cmaps = <<>>
    /\ seen = <<>>
    /\ call = NoCall
    /\ ret = NoResult
    /\ pre = NoPre
    /\ effects = NoEffects
    /\ table = NoTable
    /\ space = "ras"

\* an operation that assigns to neither operand has returned or raised r
Computed(op, r) ==
    /\ call' = [NoCall EXCEPT !.op = op, !.args = <<lhs, rhs>>]
    /\ ret' = r
    /\ UNCHANGED <<_vox2ras, _vox2ras_tkr, _ras2mni_305, _electrode_contacts, _geoms,
                   _electrode_cmaps, seen, pre, effects, lhs, rhs, table, space>>

\* an operation that works on self in place has returned self or raised
Applied(op, argument, r) ==
    /\ call' = [NoCall EXCEPT !.op = op, !.args = <<lhs, argument>>]
    /\ ret' = r
    /\ lhs' = IF r.err = "" THEN Val(r) ELSE lhs
    /\ UNCHANGED <<_vox2ras, _vox2ras_tkr, _ras2mni_305, _electrode_contacts, _geoms,
                   _electrode_cmaps, seen, pre, effects, rhs, table, space>>

\* lhs <op> rhs
Vec3Operate(op) ==
    /\ call.op = "none"
    /\ Computed(op, Vec3Operator(op, lhs, rhs))

\* lhs.add(rhs), lhs.sub(rhs)
Vec3Accumulate(op) ==
    /\ call.op = "none"
    /\ Applied(op, rhs, Vec3InPlace(op, lhs, rhs))

\* lhs.dot(rhs)
Vec3DotCall ==
    /\ call.op = "none"
    /\ Computed("dot", Vec3Dot(lhs, rhs))

\* lhs.distanceTo(rhs)
Vec3DistanceToCall ==
    /\ call.op = "none"
    /\ Computed("distanceTo", Vec3DistanceTo(lhs, rhs))

\* lhs.distanceToSquared(rhs)
Vec3DistanceToSquaredCall ==
    /\ call.op = "none"
    /\ Computed("distanceToSquared", Vec3DistanceToSquared(lhs, rhs))

\* lhs.applyMat44(mat44)
Vec3ApplyCall(mat44) ==
    /\ call.op = "none"
    /\ Applied("applyMat44", mat44, Vec3ApplyMat44(lhs, mat44))

NextVec3 ==
    \/ \E op \in Operators : Vec3Operate(op)
    \/ \E op \in {"add", "sub"} : Vec3Accumulate(op)
    \/ Vec3DotCall
    \/ Vec3DistanceToCall
    \/ Vec3DistanceToSquaredCall
    \/ \E mat44 \in VecMats : Vec3ApplyCall(mat44)

SpecVec3 == InitVec3 /\ [][NextVec3]_vars

\* the call was an operation between two vectors; the operands as passed
BinaryOps == Operators \cup {"add", "sub", "dot", "distanceTo", "distanceToSquared"}
BinaryCall == call.op \in BinaryOps
Self == call.args[1]
Other == call.args[2]

(***************************************************************************)
(* C22: an operation between two vectors (the five operators, add and sub  *)
(* in place, dot, distanceTo, distanceToSquared) raises when the spaces of *)
(* the operands differ and then leaves both as they were; when it returns  *)
(* a vector, the spaces were equal and the vector has that space.          *)
(* applyMat44 raises unless the vector's space is the matrix's space_from, *)
(* leaving the vector as it was, and otherwise leaves the vector tagged    *)
(* with the matrix's space_to.                                             *)
(***************************************************************************)
C22_SpacesMustMatch ==
    /\ BinaryCall =>
          /\ rhs = Other
          /\ Self.space # Other.space =>
                /\ ret.err # "" /\ ret.val = <<>>
                /\ lhs = Self
          /\ Self.space = Other.space =>
                /\ IsOk(ret)
                /\ call.op \in Operators \cup {"add", "sub"} => Val(ret).space = Self.space
                /\ lhs.space = Self.space
    /\ call.op = "applyMat44" =>
          /\ Self.space # Other.space_from =>
                /\ ret.err # "" /\ ret.val = <<>>
                /\ lhs = Self
          /\ Self.space = Other.space_from =>
                /\ IsOk(ret)
                /\ lhs = Val(ret)
                /\ lhs.space = Other.space_to

\* a sum of a ras vector and a voxel vector has been refused
C22_Witness ==
    /\ call.op = "__add__"
    /\ Self.space = "ras" /\ Other.space = "voxel"
    /\ Self.nan = {} /\ Other.nan = {}
    /\ ret.err # ""
    /\ lhs = Self /\ rhs = Other

(***************************************************************************)
(* The electrode registry as a state machine: contacts are added one by    *)
(* one and by tables, given values, looked up and cleaned, in any order,   *)
(* on a brain as its constructor left it.                                  *)
(***************************************************************************)
\* dict.pop(key, None) for every key of `keys`
DictPopAll(d, keys) == [k \in DOMAIN d \ keys |-> d[k]]

\* Brain.clean_electrodes: every name of a contact is popped from the
\* geometries and from the contacts; the contacts are stored under their
\* numbers and no number is equal to a name, so that the second pop finds
\* nothing
CleanElectrodes(contacts, geoms) ==
    [contacts |-> contacts,
     geoms |-> DictPopAll(geoms, {contacts[n].name : n \in DOMAIN contacts})]

\* Brain.get_electrode_contact(number)
GetElectrodeContact(contacts, number) ==
    IF number \in DOMAIN contacts THEN Some(contacts[number]) ELSE None

RegistryLabels == {"LA1", "LB1"}

\* a row of the columns Electrode, Label, x, y, z
RegistryRow(electrode, label) ==
    [Electrode |-> electrode, Label |-> label,
     xyz |-> <<10000, 20000, 30000>>, Coord |-> <<>>, T1 |-> <<>>,
     MNI305 |-> <<>>, MNI152 |-> <<>>, Sphere |-> <<>>, Radius |-> None,
     SurfaceElectrode |-> FALSE, FSLabel |-> <<"U", "n", "k", "n", "o", "w", "n">>,
     Hemisphere |-> <<"a", "u", "t", "o">>]

RegistryRows == {RegistryRow(electrode, label) : electrode \in 1..MaxNumber, label \in RegistryLabels}

\* the tables of up to MaxListLen rows, and two tables of the columns
\* Label, x, y, z alone: one of no row, one of one row
RegistryTables ==
    {[has_electrode_column |-> TRUE, rows |-> rows] : rows \in SeqsUpTo(RegistryRows, MaxListLen)}
    \cup {[has_electrode_column |-> FALSE, rows |-> rows] :
             rows \in {<<>>, <<RegistryRow(1, "LA1")>>}}

\* a table of one value of contact 1, and a table of no column Electrode
RegistryValueTables ==
    {[has_electrode_column |-> has_column, has_time_column |-> FALSE,
      rows |-> TableOf(1, <<Some(2)>>)] : has_column \in BOOLEAN}

\* brain.add_electrodes(tbl)
CallAddElectrodes(tbl) ==
    /\ call.op = "none"
    /\ \E run \in {AddElectrodesRun(_electrode_contacts, _geoms, tbl, "ras")} :
           /\ _electrode_contacts' = run.contacts
           /\ _geoms' = run.geoms
           /\ ret' = run.ret
    /\ call' = [NoCall EXCEPT !.op = "add_electrodes", !.args = <<tbl>>]
    /\ pre' = Snapshot
    /\ effects' = NoEffects
    /\ UNCHANGED <<_electrode_cmaps, seen, _vox2ras, _vox2ras_tkr, _ras2mni_305, lhs, rhs,
                   table, space>>

\* brain.clean_electrodes()
CallCleanElectrodes ==
    /\ call.op = "none"
    /\ \E run \in {CleanElectrodes(_electrode_contacts, _geoms)} :
           /\ _electrode_contacts' = run.contacts
           /\ _geoms' = run.geoms
    /\ ret' = Ok(None)
    /\ call' = [NoCall EXCEPT !.op = "clean_electrodes"]
    /\ pre' = Snapshot
    /\ effects' = NoEffects
    /\ UNCHANGED <<_electrode_cmaps, seen, _vox2ras, _vox2ras_tkr, _ras2mni_305, lhs, rhs,
                   table, space>>

\* brain.get_electrode_contact(number)
CallGetElectrodeContact(number) ==
    /\ call.op = "none"
    /\ ret' = Ok(GetElectrodeContact(_electrode_contacts, number))
    /\ call' = [NoCall EXCEPT !.op = "get_electrode_contact", !.args = <<number>>]
    /\ pre' = Snapshot
    /\ effects' = NoEffects
    /\ UNCHANGED <<_electrode_contacts, _geoms, _electrode_cmaps, seen, _vox2ras,
                   _vox2ras_tkr, _ras2mni_305, lhs, rhs, table, space>>

NextRegistry ==
    \/ \E number \in 1..MaxNumber, label \in RegistryLabels :
          CallAddElectrodeContact(number, [ArgsBare EXCEPT !.label = label])
    \/ \E tbl \in RegistryTables : CallAddElectrodes(tbl)
    \/ \E values_table \in RegistryValueTables : CallSetElectrodeValues(values_table)
    \/ CallCleanElectrodes
    \/ \E number \in 1..MaxNumber : CallGetElectrodeContact(number)
    \/ Return

SpecRegistry == InitColormap /\ [][NextRegistry]_vars

\* the table handed to add_electrodes or to set_electrode_values
TableArg == call.args[1]

\* the records of a dict
Records(d) == {d[k] : k \in DOMAIN d}

(***************************************************************************)
(* C23: add_electrodes and set_electrode_values raise on a table that has  *)
(* no column Electrode, and leave the contacts with their keyframes, the   *)
(* geometries and the colormaps as they were before the call.              *)
(***************************************************************************)
C23_MissingColumnRaises ==
    (/\ call.op \in {"add_electrodes", "set_electrode_values"}
     /\ ~TableArg.has_electrode_column)
    => /\ ret.err # ""
       /\ _electrode_contacts = pre.contacts
       /\ _geoms = pre.geoms
       /\ _electrode_cmaps = pre.cmaps

\* the part of C23 the code keeps: set_electrode_values raises on every such
\* table, add_electrodes on every such table that has a row, nothing changed
C23_RaisesOnRows ==
    (/\ call.op \in {"add_electrodes", "set_electrode_values"}
     /\ ~TableArg.has_electrode_column
     /\ (call.op = "add_electrodes" => TableArg.rows # <<>>))
    => /\ ret.err # ""
       /\ _electrode_contacts = pre.contacts
       /\ _geoms = pre.geoms
       /\ _electrode_cmaps = pre.cmaps

(***************************************************************************)
(* C24: add_electrodes returns the number of contacts the call added (the  *)
(* rows of the table, the distinct numbers in it, or the numbers new to    *)
(* the brain), not the size of the registry.                               *)
(***************************************************************************)
C24_ReturnsAdded ==
    (call.op = "add_electrodes" /\ IsOk(ret))
    => Val(ret) \in {Len(TableArg.rows),
                     Cardinality({TableArg.rows[i].Electrode : i \in 1..Len(TableArg.rows)}),
                     Cardinality(DOMAIN _electrode_contacts \ DOMAIN pre.contacts)}

\* what add_electrodes does return: the size of the registry after the call
C24_ReturnsRegistrySize ==
    (call.op = "add_electrodes" /\ IsOk(ret))
    => Val(ret) = Cardinality(DOMAIN _electrode_contacts)

(***************************************************************************)
(* C25: after clean_electrodes the brain holds no contact and no geometry  *)
(* of a contact, and get_electrode_contact returns None from then on until *)
(* a contact is added.                                                     *)
(***************************************************************************)
C25_CleanRemovesAll ==
    call.op = "clean_electrodes"
    => /\ _electrode_contacts = <<>>
       /\ \A number \in 1..MaxNumber :
             GetElectrodeContact(_electrode_contacts, number) = None
       /\ _geoms = <<>>

(***************************************************************************)
(* C29: a call of add_electrode_contact or add_electrodes on a brain whose *)
(* geometries are exactly its contacts leaves the geometries exactly the   *)
(* contacts, also when it gives a number of the brain another label.       *)
(***************************************************************************)
C29_GeomsAreContacts ==
    (/\ call.op \in {"add_electrode_contact", "add_electrodes"}
     /\ Records(pre.geoms) = Records(pre.contacts))
    => Records(_geoms) = Records(_electrode_contacts)

(***************************************************************************)
(* Mat44 built from a buffer of numbers.                                   *)
(***************************************************************************)
\* np.reshape of a flat buffer to nrow rows of ncol numbers
Reshape(buffer, nrow, ncol) ==
    [i \in 1..nrow |-> [j \in 1..ncol |-> buffer[(i - 1) * ncol + j]]]

\* mat.reshape(4, 3).transpose(): three rows of four numbers
Reshape43Transposed(buffer) ==
    [i \in 1..3 |-> [j \in 1..4 |-> Reshape(buffer, 4, 3)[j][i]]]

\* the array self.mat is given, or the error of reshape; `mat` is None or
\* a flat buffer.  For 16 numbers the array stored is the one reshaped by
\* row: the transposed array of byrow = False is bound to the name `mat`
\* and not stored
BufferArray(mat, byrow) ==
    IF mat = None THEN Ok(Eye4)
    ELSE IF Len(mat[1]) = 12
    THEN Ok(Append(IF byrow THEN Reshape(mat[1], 3, 4) ELSE Reshape43Transposed(mat[1]),
                   <<0, 0, 0, 1>>))
    ELSE IF Len(mat[1]) # 16
    THEN Raise("ValueError: cannot reshape array into shape (4,4)")
    ELSE Ok(Reshape(mat[1], 4, 4))

\* Mat44(mat, byrow, space_from, space_to), modalities T1
Mat44FromBuffer(mat, byrow, space_from, space_to) ==
    IF BufferArray(mat, byrow).err # "" THEN BufferArray(mat, byrow)
    ELSE Ok(Mat44(Val(BufferArray(mat, byrow)), space_from, space_to, "T1", "T1"))

\* the numbers of a matrix by row
Flat(a) == a[1] \o a[2] \o a[3] \o a[4]

\* start, start + step, ...
Ramp(n, start, step) == [i \in 1..n |-> start + step * (i - 1)]

\* buffers of 16 numbers: translations by row and ramps; of 12 numbers: the
\* first 12 of each; and a buffer of 9 numbers
Buffers16 ==
    {Flat(Shift(dx, dy, dz)) : dx \in (0 - MaxShift)..MaxShift,
                               dy \in (0 - MaxShift)..MaxShift,
                               dz \in (0 - MaxShift)..MaxShift}
    \cup {Ramp(16, start, step) : start \in 0..MaxListLen, step \in 1..MaxListLen}

Buffers == Buffers16 \cup {SubSeq(b, 1, 12) : b \in Buffers16} \cup {Ramp(9, 1, 1)}

\* Mat44(buffer, byrow, space_from = "ras", space_to = "ras")
CallMat44(mat, byrow) ==
    /\ call.op = "none"
    /\ call' = [NoCall EXCEPT !.op = "Mat44", !.args = <<mat, byrow>>]
    /\ ret' = Mat44FromBuffer(mat, byrow, "ras", "ras")
    /\ UNCHANGED <<_vox2ras, _vox2ras_tkr, _ras2mni_305, _electrode_contacts, _geoms,
                   _electrode_cmaps, seen, pre, effects, lhs, rhs, table, space>>

NextBuffer ==
    \E mat \in {None} \cup {Some(b) : b \in Buffers}, byrow \in BOOLEAN : CallMat44(mat, byrow)

SpecBuffer == InitKeyframe /\ [][NextBuffer]_vars

Mat44Call == call.op = "Mat44"
BufferArg == call.args[1]
ByrowArg == call.args[2]

\* the matrix the constructor makes of the same buffer by row
ByRow == Val(Mat44FromBuffer(BufferArg, TRUE, "ras", "ras")).mat

(***************************************************************************)
(* C26: a Mat44 is built from 12 or 16 numbers by row or by column: of 16  *)
(* numbers, byrow = False gives the transpose of what byrow = True gives;  *)
(* 12 numbers by column are the transpose of a 4x3 block, and the row      *)
(* 0 0 0 1 is added; with no buffer the matrix is the identity.            *)
(***************************************************************************)
C26_BufferOrder ==
    Mat44Call =>
       /\ BufferArg = None => IsOk(ret) /\ Val(ret).mat = Eye4
       /\ (BufferArg # None /\ Len(BufferArg[1]) = 16) =>
             /\ IsOk(ret)
             /\ ByrowArg => Val(ret).mat = Reshape(BufferArg[1], 4, 4)
             /\ ~ByrowArg => Val(ret).mat = Transpose(ByRow)
       /\ (BufferArg # None /\ Len(BufferArg[1]) = 12) =>
             /\ IsOk(ret)
             /\ Val(ret).mat[4] = <<0, 0, 0, 1>>
             /\ \A i \in 1..3, j \in 1..4 :
                   Val(ret).mat[i][j] = IF ByrowArg THEN BufferArg[1][(i - 1) * 4 + j]
                                        ELSE BufferArg[1][(j - 1) * 3 + i]

\* what the constructor does with 16 numbers: byrow makes no difference
C26_SixteenIgnoresByrow ==
    (Mat44Call /\ BufferArg # None /\ Len(BufferArg[1]) = 16)
    => IsOk(ret) /\ Val(ret).mat = ByRow

\* the files of the call at the positions 1..n that exist, and their ids
ExistingUpTo(n) == SelectSeq(SubSeq(call.files, 1, n), PathExists)
IdsOf(files) == [i \in 1..Len(files) |-> files[i].id]

\* both base transforms were set before the call
BothSetBefore == pre.vox2ras # None /\ pre.vox2ras_tkr # None

\* the MGZ rule asks for vox2ras_tkr to be read from f, given what was
\* stored before the call
MgzRuleBefore(f) ==
    call.update = 1 /\ f.ext = "mgz" /\ pre.vox2ras_tkr[1].extra.source_format # "mgz"

(***************************************************************************)
(* C27: _update_matrices reads a volume file only to assign vox2ras or     *)
(* vox2ras_tkr from it, and only a file that exists.  Below level 2 the    *)
(* call returns at the first existing file from which neither is needed,   *)
(* having read the existing files before it and neither that file nor a    *)
(* later one; a file that does not exist is not read and does not end the  *)
(* call.  A call that runs to the end of its list has read every existing  *)
(* file of it.                                                             *)
(***************************************************************************)
C27_ReadsOnlyWhenNeeded ==
    call.op = "update_matrices" =>
       /\ \A k \in 1..Len(effects.reads) :
             /\ \E f \in VolumeFiles : f.id = effects.reads[k] /\ f.exists
             /\ \E w \in 1..Len(effects.writes) : effects.writes[w][2] = effects.reads[k]
       /\ \A w \in 1..Len(effects.writes) :
             \E k \in 1..Len(effects.reads) : effects.reads[k] = effects.writes[w][2]
       /\ effects.stopped_at # 0 =>
             /\ call.update < 2
             /\ call.files[effects.stopped_at].exists
             /\ effects.reads = IdsOf(ExistingUpTo(effects.stopped_at - 1))
       /\ effects.stopped_at = 0 =>
             effects.reads = IdsOf(ExistingUpTo(Len(call.files)))
       /\ (/\ call.update < 2
           /\ BothSetBefore
           /\ ExistingUpTo(Len(call.files)) # <<>>
           /\ ~MgzRuleBefore(ExistingUpTo(Len(call.files))[1]))
          => /\ effects.reads = <<>>
             /\ effects.stopped_at # 0
             /\ ExistingUpTo(effects.stopped_at) = <<call.files[effects.stopped_at]>>

\* a call at level 1 has read its first file, an MGZ file, returned at its
\* second and not read it
C27_Witness ==
    /\ call.op = "update_matrices"
    /\ call.update = 1
    /\ Len(call.files) = 2
    /\ BothSetBefore
    /\ effects.stopped_at = 2
    /\ effects.reads = <<call.files[1].id>>

\* a call at level 0 has passed a file that does not exist and returned at
\* the next without reading
C27_WitnessMissingFile ==
    /\ call.op = "update_matrices"
    /\ call.update = 0
    /\ Len(call.files) = 2
    /\ ~call.files[1].exists
    /\ effects.stopped_at = 2
    /\ effects.reads = <<>>

(***************************************************************************)
(* Helpers of the statement about the order of the constructor's list.     *)
(***************************************************************************)
\* the position of a format in the constructor's list: the .mgz names come
\* first, then the .nii.gz names, then the .nii names
FormatRank(ext) == IF ext = "mgz" THEN 1 ELSE IF ext = "nii.gz" THEN 2 ELSE 3

IsAtlasFile(f) == f.name \in AtlasNames

\* the files of the folder the constructor was given
Found == {call.files[i] : i \in {p \in 1..Len(call.files) : call.files[p].exists}}

\* the file vox2ras was read from by the call
Vox2rasSource ==
    {f \in Found : \E w \in 1..Len(effects.writes) : effects.writes[w] = <<"_vox2ras", f.id>>}

(***************************************************************************)
(* C28 as the specification states it: the constructor offers the default  *)
(* slice prefixes before the atlas prefixes, so that vox2ras comes from a  *)
(* slice file whenever the folder holds one in any format.                 *)
(***************************************************************************)
C28_SliceBeforeAtlas ==
    (call.op = "Brain" /\ \E f \in Found : ~IsAtlasFile(f))
    => /\ Vox2rasSource # {}
       /\ \A f \in Vox2rasSource : ~IsAtlasFile(f)

(***************************************************************************)
(* C28 as the code has it: the list is ordered by format first (.mgz, then *)
(* .nii.gz, then .nii) and by prefix within a format (slice prefixes, then *)
(* atlas prefixes).  vox2ras comes from the first file of the list that    *)
(* exists: from a slice file exactly when the folder holds a slice file in *)
(* a format no later than that of every atlas file it holds.               *)
(***************************************************************************)
C28_FormatThenPrefix ==
    call.op = "Brain" =>
       /\ Found = {} => _vox2ras = None /\ Vox2rasSource = {}
       /\ Found # {} =>
             /\ Vox2rasSource = {ExistingUpTo(Len(call.files))[1]}
             /\ _vox2ras = Some(VolumeVox2ras(ExistingUpTo(Len(call.files))[1]))
             /\ (\A f \in Vox2rasSource : ~IsAtlasFile(f))
                <=> \E s \in Found :
                       /\ ~IsAtlasFile(s)
                       /\ \A a \in Found :
                             IsAtlasFile(a) => FormatRank(s.ext) <= FormatRank(a.ext)

\* the folder holds aseg.mgz and T1.nii.gz and no slice file in .mgz:
\* vox2ras has been read from aseg.mgz
C28_Witness ==
    /\ call.op = "Brain"
    /\ \E f \in Found : f.name = "aseg.mgz"
    /\ \E f \in Found : f.name = "T1.nii.gz"
    /\ \A f \in Found : f.ext = "mgz" => IsAtlasFile(f)
    /\ \A f \in Vox2rasSource : f.name = "aseg.mgz"
    /\ Vox2rasSource # {}

(***************************************************************************)
(* The base transforms over the life of a brain: it is constructed, then   *)
(* slices and volumes are added and _update_matrices is called, in any     *)
(* order.  What the folder mri holds is the environment's: each call finds *)
(* a file of the prefix asked for or none.                                 *)
(***************************************************************************)
\* the files of VolumeFiles named <prefix>.mgz, <prefix>.nii.gz, <prefix>.nii
CandidateFiles(prefix) ==
    {f \in VolumeFiles : f.name \in {prefix \o ".mgz", prefix \o ".nii.gz", prefix \o ".nii"}}

\* slice_files / volume_files: what os.listdir holds of the candidates
ListedFiles(prefix) == {<<>>} \cup {<<f>> : f \in {c \in CandidateFiles(prefix) : c.exists}}

SlicePrefixes == {"brain.finalsurfs", "T1", "synthSR"}
VolumePrefixes == {"aseg", "CT", "synthSR"}

\* the brain has been constructed
Constructed305 == _ras2mni_305 # None

\* [slice_files[0]], or nothing
FirstFound(listed) == IF listed = <<>> THEN <<>> ELSE <<listed[1]>>

\* add_slice and add_volume from the test of the listing on: nothing found
\* returns None, else the first file found is handed to _update_matrices
AddedFrom(op, listed) ==
    /\ \E st \in {UpdateMatricesRun(_vox2ras, _vox2ras_tkr, FirstFound(listed), 1)} :
           /\ _vox2ras' = IF listed = <<>> THEN _vox2ras ELSE st.vox2ras
           /\ _vox2ras_tkr' = IF listed = <<>> THEN _vox2ras_tkr ELSE st.vox2ras_tkr
           /\ effects' = IF listed = <<>> THEN NoEffects
                         ELSE [reads |-> st.reads, writes |-> st.writes,
                               stopped_at |-> st.stopped_at]
    /\ call' = [NoCall EXCEPT !.op = op, !.files = FirstFound(listed), !.update = 1]
    /\ ret' = Ok(IF listed = <<>> THEN None ELSE Some(listed[1].name))
    /\ pre' = Snapshot
    /\ UNCHANGED <<_ras2mni_305, _electrode_contacts, _geoms, _electrode_cmaps, seen, lhs,
                   rhs, table, space>>

\* brain.add_slice(slice_prefix)
CallAddSlice(slice_files) ==
    /\ call.op = "none"
    /\ Constructed305
    /\ AddedFrom("add_slice", slice_files)

\* brain.add_volume(volume_prefix, is_continuous)
CallAddVolume(volume_files) ==
    /\ call.op = "none"
    /\ Constructed305
    /\ AddedFrom("add_volume", volume_files)

\* brain._update_matrices(volume_files, update) on the constructed brain
CallUpdateMatrices(volume_files, update) ==
    /\ Constructed305
    /\ UpdateMatrices(volume_files, update)

NextVolumes ==
    \/ \E existing \in Folders, outcome \in XfmOutcomes : Construct(existing, outcome)
    \/ \E slice_prefix \in SlicePrefixes :
          \E slice_files \in ListedFiles(slice_prefix) : CallAddSlice(slice_files)
    \/ \E volume_prefix \in VolumePrefixes :
          \E volume_files \in ListedFiles(volume_prefix) : CallAddVolume(volume_files)
    \/ \E volume_files \in FileLists, update \in UpdateLevels :
          CallUpdateMatrices(volume_files, update)
    \/ Return

SpecVolumes == InitCtor /\ [][NextVolumes]_vars

\* a call that hands files to _update_matrices has been made
OffersFiles == call.op \in {"Brain", "add_slice", "add_volume", "update_matrices"}

(***************************************************************************)
(* C30: vox2ras and vox2ras_tkr are both set or both unset.  A call of the *)
(* constructor, add_slice, add_volume or _update_matrices leaves a set     *)
(* transform set; below level 2 it leaves a set vox2ras as it was, and     *)
(* replaces a set vox2ras_tkr only at level 1, by one read from an MGZ     *)
(* file, when the one stored was not read from an MGZ file.                *)
(***************************************************************************)
C30_BaseTransformsStay ==
    /\ (_vox2ras = None) <=> (_vox2ras_tkr = None)
    /\ OffersFiles =>
          /\ pre.vox2ras # None => _vox2ras # None
          /\ pre.vox2ras_tkr # None => _vox2ras_tkr # None
          /\ (pre.vox2ras # None /\ call.update <= 1) => _vox2ras = pre.vox2ras
          /\ (pre.vox2ras_tkr # None /\ call.update <= 1 /\ _vox2ras_tkr # pre.vox2ras_tkr)
             => /\ call.update = 1
                /\ pre.vox2ras_tkr[1].extra.source_format # "mgz"
                /\ _vox2ras_tkr[1].extra.source_format = "mgz"

\* add_slice has found an MGZ file on a brain whose vox2ras_tkr came from a
\* NIfTI file: vox2ras_tkr is replaced, vox2ras is as it was
C30_Witness ==
    /\ call.op = "add_slice"
    /\ pre.vox2ras # None /\ pre.vox2ras_tkr # None
    /\ pre.vox2ras_tkr[1].extra.source_format = "nii"
    /\ _vox2ras_tkr # pre.vox2ras_tkr
    /\ _vox2ras = pre.vox2ras

====
